---------------------------- MODULE Spec2Model ----------------------------
(***************************************************************************)
(* Model of tablegenerator (src/src/tablegenerator.cpp): the exact-decimal *)
(* comparator gte/dotpos, the history replay trueValue, the ingestion of   *)
(* the results log by read_results_file, the statistics of                 *)
(* ComputeStatistics, the outputs of writetable, extract and extractChamp, *)
(* and the run of main from the options of the command line and the        *)
(* parameter file to its return.                                           *)
(*                                                                         *)
(* A double is an exact fraction: the values of the tables of the model    *)
(* and their sums are integers, which a double holds exactly.              *)
(*                                                                         *)
(* A std::string is a sequence of one-character strings; position i of the *)
(* C++ string (0-based) is element i+1 of the sequence.                    *)
(***************************************************************************)
EXTENDS Integers, Sequences, FiniteSets, TLC

VARIABLES
    u, v, cmp, cpc,         \* the operands handed to gte, its result, whether it ran
    TB,                     \* the tablegenerator object of main, with the locals of
                            \* read_results_file while it runs
    instance_names_file,    \* the lines of the instance inclusion list
    algorithm_names_file,   \* the lines of the algorithm inclusion list
    log,                    \* the rows of the results log read so far
    pc,                     \* the call of main that runs next
    ST,                     \* the statistics members of the tablegenerator object
    args,                   \* the arguments of the call of main that wrote out
    out,                    \* the lines written to the output file, and the
                            \* counts printed with them
    argv                    \* the options of the command line and the files
                            \* they name

cmpVars == <<u, v, cmp, cpc>>
ingVars == <<TB, instance_names_file, algorithm_names_file, log, pc>>
statVars == <<ST, args, out>>
vars == <<u, v, cmp, cpc, TB, instance_names_file, algorithm_names_file, log, pc,
          ST, args, out, argv>>

-----------------------------------------------------------------------------
(* Bounds of the model.                                                    *)

\* longest digit string (integer and fraction digits together) of an operand
MaxDigits == 2

\* most rows of a results log
MaxRows == 3

\* most value:time pairs of a history field
MaxHist == 3

\* most rows of a log that is read followed by the same rows again
MaxPass == 2

\* most cells of a complete Results Table that differ from the others
MaxVaried == 2

-----------------------------------------------------------------------------
(* std::string primitives.                                                 *)

DigitChars == {"0", "1", "2", "3", "4", "5", "6", "7", "8", "9"}

DigitVal(c) ==
    CASE c = "0" -> 0 [] c = "1" -> 1 [] c = "2" -> 2 [] c = "3" -> 3
      [] c = "4" -> 4 [] c = "5" -> 5 [] c = "6" -> 6 [] c = "7" -> 7
      [] c = "8" -> 8 [] c = "9" -> 9

\* the character code that std::string::compare orders by
Code(c) ==
    CASE c \in DigitChars -> 48 + DigitVal(c)
      [] c = "+" -> 43
      [] c = "-" -> 45
      [] c = "." -> 46
      [] c = ":" -> 58
      [] c = ";" -> 59
      [] c = "[" -> 91
      [] c = "]" -> 93
      [] c = "e" -> 101

Pow10(n) == IF n <= 0 THEN 1 ELSE LET p[k \in 0..n] == IF k = 0 THEN 1 ELSE 10 * p[k - 1] IN p[n]

Contains(s, c) == \E i \in 1..Len(s) : s[i] = c

\* s.find(c): 0-based position of the first c (only used when Contains(s, c))
Find(s, c) == (CHOOSE i \in 1..Len(s) : s[i] = c /\ \A j \in 1..(i - 1) : s[j] # c) - 1

\* s.substr(p, n) with n clipped to the end of s, as std::string does
Substr(s, p, n) ==
    LET last == IF p + n > Len(s) THEN Len(s) ELSE p + n
    IN  IF p >= Len(s) THEN <<>> ELSE SubSeq(s, p + 1, last)

\* s.substr(p, npos)
SubstrFrom(s, p) == Substr(s, p, Len(s))

\* s.erase(s.begin() + p): drop the character at 0-based position p
EraseAt(s, p) == SubSeq(s, 1, p) \o SubSeq(s, p + 2, Len(s))

\* s.erase(s.begin(), s.begin() + n): drop the first n characters
EraseFront(s, n) == SubSeq(s, n + 1, Len(s))

\* the string of n copies of c
Fill(n, c) == [i \in 1..n |-> c]

\* u.compare(v): sign of the lexicographic comparison by character code
Compare(a, b) ==
    LET n == IF Len(a) < Len(b) THEN Len(a) ELSE Len(b)
        D == {i \in 1..n : a[i] # b[i]}
    IN  IF D = {}
        THEN (IF Len(a) < Len(b) THEN -1 ELSE IF Len(a) > Len(b) THEN 1 ELSE 0)
        ELSE LET i == CHOOSE k \in D : \A j \in D : k <= j
             IN  IF Code(a[i]) < Code(b[i]) THEN -1 ELSE 1

\* value of a string of digits read as a natural number
DigitsValue(s) ==
    LET val[k \in 0..Len(s)] == IF k = 0 THEN 0 ELSE 10 * val[k - 1] + DigitVal(s[k])
    IN  val[Len(s)]

\* number of leading digit characters of s
DigitRun(s) ==
    IF \E i \in 1..Len(s) : s[i] \notin DigitChars
    THEN (CHOOSE i \in 1..Len(s) : s[i] \notin DigitChars
                                  /\ \A j \in 1..(i - 1) : s[j] \in DigitChars) - 1
    ELSE Len(s)

\* std::stoi: optional sign, then the leading digits
stoi(s) ==
    IF s # <<>> /\ s[1] = "-" THEN 0 - DigitsValue(SubSeq(s, 2, 1 + DigitRun(Tail(s))))
    ELSE IF s # <<>> /\ s[1] = "+" THEN DigitsValue(SubSeq(s, 2, 1 + DigitRun(Tail(s))))
    ELSE DigitsValue(SubSeq(s, 1, DigitRun(s)))

\* std::stod on an unsigned decimal string, kept exact: the value is m * 10^e
stod(s) ==
    LET hasE == Contains(s, "e")
        mant == IF hasE THEN Substr(s, 0, Find(s, "e")) ELSE s
        ex   == IF hasE THEN stoi(SubstrFrom(s, Find(s, "e") + 1)) ELSE 0
        frac == IF Contains(mant, ".") THEN Len(mant) - Find(mant, ".") - 1 ELSE 0
    IN  [m |-> DigitsValue(SelectSeq(mant, LAMBDA c : c \in DigitChars)), e |-> ex - frac]

Sign(n) == IF n > 0 THEN 1 ELSE IF n < 0 THEN -1 ELSE 0

\* sign of x - y for two decimals
DecCompare(x, y) ==
    LET lo == IF x.e < y.e THEN x.e ELSE y.e
    IN  Sign(x.m * Pow10(x.e - lo) - y.m * Pow10(y.e - lo))

\* the product of two decimals (operator * on double)
DecMul(x, y) == [m |-> x.m * y.m, e |-> x.e + y.e]

-----------------------------------------------------------------------------
(* double: the values the model hands to it are kept exact, as fractions   *)
(* n / d in lowest terms with d > 0.                                       *)

RECURSIVE Gcd(_, _)
Gcd(a, b) == IF b = 0 THEN a ELSE Gcd(b, a % b)

Abs(n) == IF n < 0 THEN 0 - n ELSE n

Fraction(n, d) ==
    LET g == Gcd(Abs(n), Abs(d))
    IN  IF d < 0 THEN [n |-> (0 - n) \div g, d |-> (0 - d) \div g]
        ELSE [n |-> n \div g, d |-> d \div g]

\* an Index or int converted to double
Double(k) == [n |-> k, d |-> 1]

\* the double std::stod returns
stod_double(s) ==
    LET x == stod(s)
    IN  IF x.e >= 0 THEN Fraction(x.m * Pow10(x.e), 1) ELSE Fraction(x.m, Pow10(0 - x.e))

\* operators +, -, / and < on double
DAdd(x, y) == Fraction(x.n * y.d + y.n * x.d, x.d * y.d)
DSub(x, y) == Fraction(x.n * y.d - y.n * x.d, x.d * y.d)
DDiv(x, y) == Fraction(x.n * y.d, x.d * y.n)
DLess(x, y) == x.n * y.d < y.n * x.d

\* operator * and unary - on double
DMul(x, y) == Fraction(x.n * y.n, x.d * y.d)
DNeg(x) == [n |-> 0 - x.n, d |-> x.d]

\* the decimal numeral of a natural number
RECURSIVE Numeral(_)
Numeral(k) ==
    LET digit == <<"0", "1", "2", "3", "4", "5", "6", "7", "8", "9">>[(k % 10) + 1]
    IN  IF k < 10 THEN <<digit>> ELSE Numeral(k \div 10) \o <<digit>>

\* the nearest integer to n / d for n >= 0, a tie going to the even one
Nearest(n, d) ==
    LET q == n \div d
        r == n % d
    IN  IF 2 * r > d \/ (2 * r = d /\ q % 2 = 1) THEN q + 1 ELSE q

\* operator << on a double under std::fixed and std::setprecision(p)
Fixed(x, p) ==
    LET q     == Nearest(Abs(x.n) * Pow10(p), x.d)
        whole == Numeral(q \div Pow10(p))
        frac  == Numeral(Pow10(p) + (q % Pow10(p)))
    IN  (IF x.n < 0 THEN <<"-">> ELSE <<>>)
          \o whole \o (IF p = 0 THEN <<>> ELSE <<".">> \o Tail(frac))

-----------------------------------------------------------------------------
(* dotpos and gte.                                                         *)

\* number of leading '0' among the first pos characters (the loop over trail)
LeadingZeros(s, pos) ==
    IF \E i \in 1..pos : s[i] # "0"
    THEN (CHOOSE i \in 1..pos : s[i] # "0" /\ \A j \in 1..(i - 1) : s[j] = "0") - 1
    ELSE pos

\* dotpos, the exponent: its value, and the string without it
dotpos_exponent(s) ==
    IF Contains(s, "e")
    THEN [v |-> Substr(s, 0, Find(s, "e")), e |-> stoi(SubstrFrom(s, Find(s, "e") + 1))]
    ELSE [v |-> s, e |-> 0]

\* dotpos, the decimal point: removed, its position moved by the exponent
dotpos_point(X) ==
    IF Contains(X.v, ".")
    THEN [v |-> EraseAt(X.v, Find(X.v, ".")), pos |-> Find(X.v, ".") + X.e]
    ELSE [v |-> X.v, pos |-> Len(X.v) + X.e]

\* dotpos, a position left of the string: zeros inserted in front
dotpos_insert(X) ==
    IF X.pos < 0 THEN [v |-> Fill(0 - X.pos, "0") \o X.v, pos |-> 0] ELSE X

\* dotpos, a position right of the string: zeros appended
dotpos_append(X) ==
    IF X.pos > Len(X.v) THEN [X EXCEPT !.v = @ \o Fill(X.pos - Len(X.v), "0")] ELSE X

\* dotpos, the leading zeros before the position: erased
dotpos_erase(X, trail) ==
    IF trail > 0 THEN [v |-> EraseFront(X.v, trail), pos |-> X.pos - trail] ELSE X

dotpos_leading(X) == dotpos_erase(X, LeadingZeros(X.v, X.pos))

\* dotpos without the removal of the leading zeros
dotpos_keeps_zeros(s) ==
    dotpos_append(dotpos_insert(dotpos_point(dotpos_exponent(s))))

\* dotpos(v): the digit string v is rewritten to, and the returned position
dotpos(s) ==
    dotpos_leading(dotpos_append(dotpos_insert(dotpos_point(dotpos_exponent(s)))))

\* gte, the shorter digit string padded when the positions are equal
gte_pad(U, V) ==
    IF U.pos = V.pos /\ Len(U.v) < Len(V.v)
    THEN [U |-> [U EXCEPT !.v = @ \o Fill(Len(V.v) - Len(U.v), "0")], V |-> V]
    ELSE IF U.pos = V.pos /\ Len(U.v) > Len(V.v)
    THEN [U |-> U, V |-> [V EXCEPT !.v = @ \o Fill(Len(U.v) - Len(V.v), "0")]]
    ELSE [U |-> U, V |-> V]

\* gte, the comparison of the positions and then of the strings
gte_compare(P) ==
    IF (P.U.pos > P.V.pos) \/ (P.U.pos = P.V.pos /\ Compare(P.U.v, P.V.v) > 0) THEN 1
    ELSE IF P.U.pos = P.V.pos /\ Compare(P.U.v, P.V.v) = 0 THEN 0
    ELSE -1

\* gte without the padding of the shorter digit string
gte_missing_pad(a, b) == gte_compare([U |-> dotpos(a), V |-> dotpos(b)])

\* gte(u, v): 1, 0 or -1
gte(a, b) == gte_compare(gte_pad(dotpos(a), dotpos(b)))

-----------------------------------------------------------------------------
(* Operands of the comparator: non-negative decimal strings.               *)

OperandDigits == {"0", "1", "5"}

DigitStrings(n) == UNION {[1..k -> OperandDigits] : k \in 1..n}

\* a digit string with a '.' put before 0-based position k
WithDot(d, k) == SubSeq(d, 1, k) \o <<".">> \o SubSeq(d, k + 1, Len(d))

Mantissas ==
    DigitStrings(MaxDigits)
      \cup UNION {{WithDot(d, k) : k \in 0..Len(d)} : d \in DigitStrings(MaxDigits)}

Exponents == {<<>>, <<"e", "0">>, <<"e", "2">>, <<"e", "-", "1">>}

Operands == {m \o x : m \in Mantissas, x \in Exponents}

\* The numeric value of an operand in exact integer arithmetic: the reference
\* the comparator is measured against.
NumCompare(a, b) == DecCompare(stod(a), stod(b))

-----------------------------------------------------------------------------
(* trueValue: the replay of a history against the effective time limit.    *)

\* s.rfind(c, p): 0-based position of the last c at or before p (only used
\* when RContains(s, c, p))
RContains(s, c, p) == \E i \in 1..Len(s) : i <= p + 1 /\ s[i] = c

RFind(s, c, p) ==
    (CHOOSE i \in 1..Len(s) : /\ i <= p + 1 /\ s[i] = c
                              /\ \A j \in (i + 1)..Len(s) : j <= p + 1 => s[j] # c) - 1

\* the whole token taken for the value
TokenVal_whole(token) == token

\* the part of a value:time token before the separator
TokenVal(token) ==
    IF Contains(token, ":") THEN Substr(token, 0, Find(token, ":")) ELSE token

\* the part of a value:time token after the separator
TokenTime(token) ==
    IF Contains(token, ":")
    THEN Substr(token, Find(token, ":") + 1, Len(token) - 1)
    ELSE Substr(token, 0, Len(token) - 1)

\* the body of the for loop of trueValue, from position pos on
RECURSIVE trueValueFrom(_, _, _, _, _)
trueValueFrom(str, limit, pos, val, time) ==
    IF ~(pos > 0) THEN [first |-> val, second |-> time]
    ELSE LET new_pos == IF RContains(str, ";", pos) THEN RFind(str, ";", pos) ELSE 0
             token   == Substr(str, new_pos + 1, pos - new_pos)
         IN  IF DecCompare(stod(TokenTime(token)), limit) <= 0
             THEN [first  |-> IF pos = Len(str) - 2 THEN <<>> ELSE TokenVal(token),
                   second |-> TokenTime(token)]
             ELSE trueValueFrom(str, limit, new_pos - 1, <<"0">>, <<"0">>)

\* the loop without the reset of val and time to "0" after a pair that is too late
RECURSIVE trueValueFrom_no_reset(_, _, _, _, _)
trueValueFrom_no_reset(str, limit, pos, val, time) ==
    IF ~(pos > 0) THEN [first |-> val, second |-> time]
    ELSE LET new_pos == IF RContains(str, ";", pos) THEN RFind(str, ";", pos) ELSE 0
             token   == Substr(str, new_pos + 1, pos - new_pos)
         IN  IF DecCompare(stod(TokenTime(token)), limit) <= 0
             THEN [first  |-> IF pos = Len(str) - 2 THEN <<>> ELSE TokenVal(token),
                   second |-> TokenTime(token)]
             ELSE trueValueFrom_no_reset(str, limit, new_pos - 1,
                                         TokenVal(token), TokenTime(token))

trueValue_no_reset(str, limit) == trueValueFrom_no_reset(str, limit, Len(str) - 2, <<>>, <<>>)

\* trueValue(str, limit): the pair (val, time) it returns
trueValue(str, limit) == trueValueFrom(str, limit, Len(str) - 2, <<>>, <<>>)

-----------------------------------------------------------------------------
(* The inclusion lists.                                                    *)

\* trim(str): the trailing, then the leading spaces removed
trim(str) ==
    LET keep == {i \in 1..Len(str) : str[i] # " "}
    IN  IF keep = {} THEN <<>>
        ELSE SubSeq(str, CHOOSE i \in keep : \A j \in keep : i <= j,
                         CHOOSE i \in keep : \A j \in keep : i >= j)

\* the loop that advances the index for a repeated name too
RECURSIVE read_selected_counts_repeats(_, _, _)
read_selected_counts_repeats(lines, reg, idx) ==
    IF lines = <<>> THEN [names |-> reg, n |-> idx]
    ELSE LET line  == trim(Head(lines))
             token == IF Contains(line, "\r") THEN Substr(line, 0, Find(line, "\r")) ELSE line
         IN  IF line = <<>> \/ line[1] = "#"
             THEN read_selected_counts_repeats(Tail(lines), reg, idx)
             ELSE read_selected_counts_repeats(Tail(lines),
                      IF token \in DOMAIN reg THEN reg ELSE reg @@ (token :> idx), idx + 1)

\* the loop of read_selected_instances / read_selected_algorithms over the
\* lines of the file: reg is the registry and idx the next index
RECURSIVE read_selected(_, _, _)
read_selected(lines, reg, idx) ==
    IF lines = <<>> THEN [names |-> reg, n |-> idx]
    ELSE LET line  == trim(Head(lines))
             token == IF Contains(line, "\r") THEN Substr(line, 0, Find(line, "\r")) ELSE line
         IN  IF line = <<>> \/ line[1] = "#" THEN read_selected(Tail(lines), reg, idx)
             ELSE IF token \in DOMAIN reg THEN read_selected(Tail(lines), reg, idx)
             ELSE read_selected(Tail(lines), reg @@ (token :> idx), idx + 1)

\* tablegenerator::read_selected_instances
read_selected_instances(S, file) ==
    IF S.instance_set = "all_instances" THEN S
    ELSE LET R == read_selected(file, S.Inst_names, 0)
         IN  [S EXCEPT !.Inst_names = R.names, !.ninstances = R.n]

\* tablegenerator::read_selected_algorithms
read_selected_algorithms(S, file) ==
    IF S.algorithm_set = "all_algorithms" THEN S
    ELSE LET R == read_selected(file, S.Algo_names, 0)
         IN  [S EXCEPT !.Algo_names = R.names, !.nalgorithms = R.n]

-----------------------------------------------------------------------------
(* read_results_file.                                                      *)

\* vector::resize(n) with value-initialised new elements
Resize(vec, n, fresh) ==
    IF n > Len(vec) THEN vec \o [i \in 1..(n - Len(vec)) |-> fresh] ELSE SubSeq(vec, 1, n)

\* the locals of read_results_file as they are before the first row is read
begin_results_file(S) ==
    [S EXCEPT
       !.used_instances  = IF S.instance_set = "some_instances"
                           THEN [i \in 1..S.ninstances |-> FALSE] ELSE <<>>,
       !.used_algorithms = IF S.algorithm_set = "some_algorithms"
                           THEN [i \in 1..S.nalgorithms |-> FALSE] ELSE <<>>,
       !.skipped_alg = 0, !.skipped_inst = 0,
       !.InstIdx = 0, !.AlgoIdx = 0, !.SeedIdx = 0, !.nLine = 0]

\* the pair of trueValue taken even when its value is empty
ResolveRow_always_replaces(S, row) ==
    LET limit == DecMul(stod(row.time_limit), S.time_limit_scaling)
        P     == trueValue(row.history, limit)
    IN  IF row.fields = 8
        THEN [Value |-> P.first, Time |-> P.second]
        ELSE [Value |-> row.objective, Time |-> row.time]

\* the value of trueValue taken with the time of the row's own column
ResolveRow_own_time(S, row) ==
    LET limit == DecMul(stod(row.time_limit), S.time_limit_scaling)
        P     == trueValue(row.history, limit)
    IN  IF row.fields = 8 /\ Len(P.first) > 0
        THEN [Value |-> P.first, Time |-> row.time]
        ELSE [Value |-> row.objective, Time |-> row.time]

\* the value and time a row resolves to: fields 4 to 7 of the switch; field 4
\* falls through into field 5, which then overwrites Value
ResolveRow(S, row) ==
    LET limit == DecMul(stod(row.time_limit), S.time_limit_scaling)
        P     == trueValue(row.history, limit)
    IN  IF row.fields = 8 /\ Len(P.first) > 0
        THEN [Value |-> P.first, Time |-> P.second]
        ELSE [Value |-> row.objective, Time |-> row.time]

\* the three resizes that make room for the cell of a row
GrowTable(S, Seed, Inst, Algo) ==
    LET sizeS == IF Seed >= Len(S.resultsdata_str) THEN Seed + 1 ELSE Len(S.resultsdata_str)
        d1    == Resize(S.resultsdata_str, sizeS, <<>>)
        t1    == Resize(S.resultstime, sizeS, <<>>)
        r1    == Resize(S.resultsdata, sizeS, <<>>)
        sizeI == IF Inst >= Len(d1[Seed + 1])
                 THEN (IF S.instance_set = "some_instances" THEN S.ninstances ELSE Inst + 1)
                 ELSE Len(d1[Seed + 1])
        d2    == [d1 EXCEPT ![Seed + 1] = Resize(@, sizeI, <<>>)]
        t2    == [t1 EXCEPT ![Seed + 1] = Resize(@, sizeI, <<>>)]
        r2    == [r1 EXCEPT ![Seed + 1] = Resize(@, sizeI, <<>>)]
        sizeA == IF Algo >= Len(d2[Seed + 1][Inst + 1])
                 THEN (IF S.algorithm_set = "some_algorithms" THEN S.nalgorithms ELSE Algo + 1)
                 ELSE Len(d2[Seed + 1][Inst + 1])
    IN  [S EXCEPT !.resultsdata_str = [d2 EXCEPT ![Seed + 1][Inst + 1] = Resize(@, sizeA, <<>>)],
                  !.resultstime     = [t2 EXCEPT ![Seed + 1][Inst + 1] = Resize(@, sizeA, <<>>)],
                  !.resultsdata     = [r2 EXCEPT ![Seed + 1][Inst + 1] = Resize(@, sizeA, Double(0))]]

\* the store that keeps a cell already written
StoreRow_first_wins(S, Seed, Inst, Algo, Value, Time) ==
    LET G == GrowTable(S, Seed, Inst, Algo)
    IN  IF G.resultsdata_str[Seed + 1][Inst + 1][Algo + 1] # <<>> THEN G
        ELSE [G EXCEPT !.resultsdata_str[Seed + 1][Inst + 1][Algo + 1] = Value,
                       !.resultsdata[Seed + 1][Inst + 1][Algo + 1] = stod_double(Value),
                       !.resultstime[Seed + 1][Inst + 1][Algo + 1] = Time]

\* the store of a row that was not skipped: the resizes, then the writes that
\* overwrite what the cell held
StoreRow(S, Seed, Inst, Algo, Value, Time) ==
    LET G == GrowTable(S, Seed, Inst, Algo)
    IN  [G EXCEPT !.resultsdata_str[Seed + 1][Inst + 1][Algo + 1] = Value,
                  !.resultsdata[Seed + 1][Inst + 1][Algo + 1] = stod_double(Value),
                  !.resultstime[Seed + 1][Inst + 1][Algo + 1] = Time]

\* case 1 that skips a row without counting it
case_graphname_uncounted(S, row) ==
    LET some  == S.instance_set = "some_instances"
        known == row.instance \in DOMAIN S.Inst_names
        names == IF ~some /\ ~known THEN S.Inst_names @@ (row.instance :> S.InstIdx)
                 ELSE S.Inst_names
    IN  IF some /\ ~known
        THEN [skip |-> TRUE, Inst |-> 0, S |-> S]
        ELSE [skip |-> FALSE, Inst |-> names[row.instance],
              S |-> [S EXCEPT
                       !.used_instances = IF some THEN [@ EXCEPT ![names[row.instance] + 1] = TRUE]
                                          ELSE @,
                       !.Inst_names = names,
                       !.InstIdx = IF ~some /\ ~known THEN @ + 1 ELSE @]]

\* case 1 of the switch: graphname
case_graphname(S, row) ==
    LET some  == S.instance_set = "some_instances"
        known == row.instance \in DOMAIN S.Inst_names
        names == IF ~some /\ ~known THEN S.Inst_names @@ (row.instance :> S.InstIdx)
                 ELSE S.Inst_names
    IN  IF some /\ ~known
        THEN [skip |-> TRUE, Inst |-> 0, S |-> [S EXCEPT !.skipped_inst = @ + 1]]
        ELSE [skip |-> FALSE, Inst |-> names[row.instance],
              S |-> [S EXCEPT
                       !.used_instances = IF some THEN [@ EXCEPT ![names[row.instance] + 1] = TRUE]
                                          ELSE @,
                       !.Inst_names = names,
                       !.InstIdx = IF ~some /\ ~known THEN @ + 1 ELSE @]]

\* case 2 of the switch: algorithm
case_algorithm(S, row) ==
    LET some  == S.algorithm_set = "some_algorithms"
        known == row.algorithm \in DOMAIN S.Algo_names
        names == IF ~some /\ ~known THEN S.Algo_names @@ (row.algorithm :> S.AlgoIdx)
                 ELSE S.Algo_names
    IN  IF some /\ ~known
        THEN [skip |-> TRUE, Algo |-> 0, S |-> [S EXCEPT !.skipped_alg = @ + 1]]
        ELSE [skip |-> FALSE, Algo |-> names[row.algorithm],
              S |-> [S EXCEPT
                       !.used_algorithms = IF some THEN [@ EXCEPT ![names[row.algorithm] + 1] = TRUE]
                                           ELSE @,
                       !.Algo_names = names,
                       !.AlgoIdx = IF ~some /\ ~known THEN @ + 1 ELSE @]]

\* case 3 that gives a seed name a new index each time it is read
case_seed_reassigns(S, row) ==
    [Seed |-> S.SeedIdx,
     S |-> [S EXCEPT !.Seed_names = (row.seed :> S.SeedIdx) @@ @, !.SeedIdx = @ + 1]]

\* case 3 of the switch: seed
case_seed(S, row) ==
    LET known == row.seed \in DOMAIN S.Seed_names
        names == IF ~known THEN S.Seed_names @@ (row.seed :> S.SeedIdx) ELSE S.Seed_names
    IN  [Seed |-> names[row.seed],
         S |-> [S EXCEPT !.Seed_names = names, !.SeedIdx = IF ~known THEN @ + 1 ELSE @]]

\* the body of the while loop of read_results_file for one row: the fields are
\* taken in order, and a skip leaves the loop over the fields at once
read_row(S, row) ==
    LET G == case_graphname([S EXCEPT !.nLine = @ + 1], row)
        A == case_algorithm(G.S, row)
        D == case_seed(A.S, row)
        P == ResolveRow(S, row)
    IN  IF G.skip THEN G.S
        ELSE IF A.skip THEN A.S
        ELSE StoreRow(D.S, D.Seed, G.Inst, A.Algo, P.Value, P.Time)

\* the end of read_results_file without the coverage check of the algorithms
end_results_file_instances_only(S) ==
    LET missI == S.instance_set # "all_instances"
                 /\ \E i \in 0..(S.ninstances - 1) : ~S.used_instances[i + 1]
        S1    == [S EXCEPT !.n_seeds = S.SeedIdx,
                           !.ninstances = IF S.instance_set = "all_instances"
                                          THEN S.InstIdx ELSE @]
        S2    == [S1 EXCEPT !.nalgorithms = IF S.algorithm_set = "all_algorithms"
                                            THEN S.AlgoIdx ELSE @]
    IN  IF missI THEN [S |-> S1, failed |-> TRUE] ELSE [S |-> S2, failed |-> FALSE]

\* the rest of read_results_file after the last row: n_seeds, then the
\* coverage of the two inclusion lists; failed tells whether exit is called
end_results_file(S) ==
    LET missI == S.instance_set # "all_instances"
                 /\ \E i \in 0..(S.ninstances - 1) : ~S.used_instances[i + 1]
        missA == S.algorithm_set # "all_algorithms"
                 /\ \E i \in 0..(S.nalgorithms - 1) : ~S.used_algorithms[i + 1]
        S1    == [S EXCEPT !.n_seeds = S.SeedIdx,
                           !.ninstances = IF S.instance_set = "all_instances"
                                          THEN S.InstIdx ELSE @]
        S2    == [S1 EXCEPT !.nalgorithms = IF S.algorithm_set = "all_algorithms"
                                            THEN S.AlgoIdx ELSE @]
    IN  IF missI THEN [S |-> S1, failed |-> TRUE]
        ELSE IF missA THEN [S |-> S2, failed |-> TRUE]
        ELSE [S |-> S2, failed |-> FALSE]

\* the while loop of read_results_file over the rows of a log
RECURSIVE IngestRows(_, _)
IngestRows(S, rows) ==
    IF rows = <<>> THEN S ELSE IngestRows(read_row(S, Head(rows)), Tail(rows))

-----------------------------------------------------------------------------
(* ComputeStatistics. A vector is a sequence: index i of the code is        *)
(* element i + 1.                                                          *)

Zeros(n) == [k \in 1..n |-> Double(0)]

Strings(n) == [k \in 1..n |-> <<>>]

\* tablegenerator::AllocateStatistics: resize of empty vectors
AllocateStatistics(S) ==
    [SumBySeeds_mat                |-> [i \in 1..S.ninstances |-> Zeros(S.nalgorithms)],
     MaxBySeeds_mat                |-> [i \in 1..S.ninstances |-> Strings(S.nalgorithms)],
     TimeMaxBySeeds_mat            |-> [i \in 1..S.ninstances |-> Strings(S.nalgorithms)],
     MinBySeeds_mat                |-> [i \in 1..S.ninstances |-> Strings(S.nalgorithms)],
     MaxByAlgButOne_SumBySeeds_mat |-> [i \in 1..S.ninstances |-> Zeros(S.nalgorithms)],
     MaxByAlgButOne_MaxBySeeds_mat |-> [i \in 1..S.ninstances |-> Strings(S.nalgorithms)],
     MaxByAlg_SumBySeeds_vect      |-> Zeros(S.ninstances),
     MaxByAlg_MaxBySeeds_vect      |-> Strings(S.ninstances),
     TimeMaxByAlg_MaxBySeeds_vect  |-> Strings(S.ninstances),
     FE |-> Zeros(S.nalgorithms), FS |-> Zeros(S.nalgorithms),
     BA |-> Zeros(S.nalgorithms), EBA |-> Zeros(S.nalgorithms),
     WD |-> Zeros(S.nalgorithms), MD |-> Zeros(S.nalgorithms),
     BD |-> Zeros(S.nalgorithms), AR |-> Zeros(S.nalgorithms)]

\* the sum of a vector of double, added up from 0 in index order
DSum(vec) ==
    LET acc[k \in 0..Len(vec)] == IF k = 0 THEN Double(0) ELSE DAdd(acc[k - 1], vec[k])
    IN  acc[Len(vec)]

\* tablegenerator::SumBySeeds
SumBySeeds(S, T) ==
    [T EXCEPT !.SumBySeeds_mat =
        [i \in 1..S.ninstances |-> [h \in 1..S.nalgorithms |->
            DSum([seed \in 1..S.n_seeds |-> S.resultsdata[seed][i][h]])]]]

\* the loop of MaxByAlg over one row of a double matrix
RowMax(row, n) ==
    LET m[k \in 1..n] == IF k = 1 THEN row[1]
                         ELSE IF DLess(m[k - 1], row[k]) THEN row[k] ELSE m[k - 1]
    IN  m[n]

\* tablegenerator::MaxByAlg(MatDouble&, VecDouble&)
MaxByAlg_double(S, in_mat) ==
    [i \in 1..S.ninstances |-> RowMax(in_mat[i], S.nalgorithms)]

\* the test of MaxByAlg and MaxBySeeds: a greater value, or an equal value
\* with an earlier time
Better(cur, val, time) ==
    gte(cur.v, val) < 0 \/ (gte(cur.v, val) = 0 /\ gte(cur.t, time) > 0)

\* a loop that keeps the first of the best values of the row, whatever its time
RowBest_first_found(row, times, n) ==
    LET m[k \in 1..n] == IF k = 1 THEN [v |-> row[1], t |-> times[1]]
                         ELSE IF gte(m[k - 1].v, row[k]) < 0
                              THEN [v |-> row[k], t |-> times[k]]
                              ELSE m[k - 1]
    IN  m[n]

\* the loop of MaxByAlg over one row of a string matrix and of its times
RowBest(row, times, n) ==
    LET m[k \in 1..n] == IF k = 1 THEN [v |-> row[1], t |-> times[1]]
                         ELSE IF Better(m[k - 1], row[k], times[k])
                              THEN [v |-> row[k], t |-> times[k]]
                              ELSE m[k - 1]
    IN  m[n]

\* tablegenerator::MaxByAlg(MatString&, MatString&, VecString&, VecString&)
MaxByAlg_string(S, T) ==
    [T EXCEPT
       !.MaxByAlg_MaxBySeeds_vect =
           [i \in 1..S.ninstances |->
               RowBest(T.MaxBySeeds_mat[i], T.TimeMaxBySeeds_mat[i], S.nalgorithms).v],
       !.TimeMaxByAlg_MaxBySeeds_vect =
           [i \in 1..S.ninstances |->
               RowBest(T.MaxBySeeds_mat[i], T.TimeMaxBySeeds_mat[i], S.nalgorithms).t]]

\* a count, divided by ninstances unless absolute values are asked for
Percentage(S, count) ==
    IF S.absolute_values THEN Double(count) ELSE DDiv(Double(count), Double(S.ninstances))

\* FirstEqualPercentage that counts an instance for the first algorithm of
\* the maximum only
FirstEqualPercentage_first_only(S, T) ==
    [T EXCEPT !.FE = [h \in 1..S.nalgorithms |->
        Percentage(S, Cardinality({i \in 1..S.ninstances :
            /\ T.SumBySeeds_mat[i][h] = T.MaxByAlg_SumBySeeds_vect[i]
            /\ \A h1 \in 1..(h - 1) :
                  T.SumBySeeds_mat[i][h1] # T.MaxByAlg_SumBySeeds_vect[i]}))]]

\* tablegenerator::FirstEqualPercentage
FirstEqualPercentage(S, T) ==
    [T EXCEPT !.FE = [h \in 1..S.nalgorithms |->
        Percentage(S, Cardinality({i \in 1..S.ninstances :
            T.SumBySeeds_mat[i][h] = T.MaxByAlg_SumBySeeds_vect[i]}))]]

\* the indices after the first without the step over the algorithm h
OtherIndices_with_own(h, n) ==
    IF n < 3 THEN <<>>
    ELSE IF h > 0 THEN [k \in 1..(n - 2) |-> k]
    ELSE [k \in 1..(n - 2) |-> k + 1]

\* the indices MaxByAlgButOne visits after its first, for the algorithm h
OtherIndices(h, n) ==
    IF n < 3 THEN <<>>
    ELSE IF h > 0 THEN [k \in 1..(n - 2) |-> IF k < h THEN k ELSE k + 1]
    ELSE [k \in 1..(n - 2) |-> k + 1]

\* the least of the other elements of a row in place of their greatest
RowMaxButOne_least(row, h, n, beyond) ==
    LET others == OtherIndices(h, n)
        first  == IF h > 0 THEN row[1] ELSE IF n > 1 THEN row[2] ELSE beyond
        m[k \in 0..Len(others)] ==
            IF k = 0 THEN first
            ELSE IF DLess(row[others[k] + 1], m[k - 1]) THEN row[others[k] + 1] ELSE m[k - 1]
    IN  m[Len(others)]

\* MaxByAlgButOne on one row of a double matrix for the algorithm h; beyond
\* is what in_mat[i][1] reads when the row has a single element
RowMaxButOne(row, h, n, beyond) ==
    LET others == OtherIndices(h, n)
        first  == IF h > 0 THEN row[1] ELSE IF n > 1 THEN row[2] ELSE beyond
        m[k \in 0..Len(others)] ==
            IF k = 0 THEN first
            ELSE IF DLess(m[k - 1], row[others[k] + 1]) THEN row[others[k] + 1] ELSE m[k - 1]
    IN  m[Len(others)]

\* tablegenerator::MaxByAlgButOne(MatDouble&, MatDouble&)
MaxByAlgButOne_double(S, T, beyond) ==
    [T EXCEPT !.MaxByAlgButOne_SumBySeeds_mat =
        [i \in 1..S.ninstances |-> [h \in 1..S.nalgorithms |->
            RowMaxButOne(T.SumBySeeds_mat[i], h - 1, S.nalgorithms, beyond.number)]]]

\* tablegenerator::FirstStrictPercentage
FirstStrictPercentage(S, T) ==
    [T EXCEPT !.FS = [h \in 1..S.nalgorithms |->
        Percentage(S, Cardinality({i \in 1..S.ninstances :
            DLess(T.MaxByAlgButOne_SumBySeeds_mat[i][h], T.SumBySeeds_mat[i][h])}))]]

\* a loop over the seeds that takes a later seed only for a greater value
SeedBest_value_only(S, i, h) ==
    LET m[k \in 1..S.n_seeds] ==
            IF k = 1 THEN [v |-> S.resultsdata_str[1][i][h], t |-> S.resultstime[1][i][h]]
            ELSE IF gte(m[k - 1].v, S.resultsdata_str[k][i][h]) < 0
                 THEN [v |-> S.resultsdata_str[k][i][h], t |-> S.resultstime[k][i][h]]
                 ELSE m[k - 1]
    IN  m[S.n_seeds]

\* the loop of MaxBySeeds over the seeds of one cell
SeedBest(S, i, h) ==
    LET m[k \in 1..S.n_seeds] ==
            IF k = 1 THEN [v |-> S.resultsdata_str[1][i][h], t |-> S.resultstime[1][i][h]]
            ELSE IF Better(m[k - 1], S.resultsdata_str[k][i][h], S.resultstime[k][i][h])
                 THEN [v |-> S.resultsdata_str[k][i][h], t |-> S.resultstime[k][i][h]]
                 ELSE m[k - 1]
    IN  m[S.n_seeds]

\* tablegenerator::MaxBySeeds
MaxBySeeds(S, T) ==
    [T EXCEPT
       !.MaxBySeeds_mat =
           [i \in 1..S.ninstances |-> [h \in 1..S.nalgorithms |-> SeedBest(S, i, h).v]],
       !.TimeMaxBySeeds_mat =
           [i \in 1..S.ninstances |-> [h \in 1..S.nalgorithms |-> SeedBest(S, i, h).t]]]

\* tablegenerator::BestAchievedPercentage
BestAchievedPercentage(S, T) ==
    [T EXCEPT !.BA = [h \in 1..S.nalgorithms |->
        Percentage(S, Cardinality({i \in 1..S.ninstances :
            gte(T.MaxBySeeds_mat[i][h], T.MaxByAlg_MaxBySeeds_vect[i]) = 0}))]]

\* tablegenerator::EarliestBestAchievedPercentage
EarliestBestAchievedPercentage(S, T) ==
    [T EXCEPT !.EBA = [h \in 1..S.nalgorithms |->
        Percentage(S, Cardinality({i \in 1..S.ninstances :
            /\ gte(T.MaxBySeeds_mat[i][h], T.MaxByAlg_MaxBySeeds_vect[i]) = 0
            /\ gte(T.TimeMaxBySeeds_mat[i][h], T.TimeMaxByAlg_MaxBySeeds_vect[i]) = 0}))]]

\* MaxByAlgButOne on one row of a string matrix for the algorithm h
RowBestButOne(row, h, n, beyond) ==
    LET others == OtherIndices(h, n)
        first  == IF h > 0 THEN row[1] ELSE IF n > 1 THEN row[2] ELSE beyond
        m[k \in 0..Len(others)] ==
            IF k = 0 THEN first
            ELSE IF gte(m[k - 1], row[others[k] + 1]) < 0 THEN row[others[k] + 1] ELSE m[k - 1]
    IN  m[Len(others)]

\* tablegenerator::MaxByAlgButOne(MatString&, MatString&)
MaxByAlgButOne_string(S, T, beyond) ==
    [T EXCEPT !.MaxByAlgButOne_MaxBySeeds_mat =
        [i \in 1..S.ninstances |-> [h \in 1..S.nalgorithms |->
            RowBestButOne(T.MaxBySeeds_mat[i], h - 1, S.nalgorithms, beyond.text)]]]

\* the value of the first seed in place of the least
SeedLeast_first_seed(S, i, h) == S.resultsdata_str[1][i][h]

\* the loop of MinBySeeds over the seeds of one cell
SeedLeast(S, i, h) ==
    LET m[k \in 1..S.n_seeds] ==
            IF k = 1 THEN S.resultsdata_str[1][i][h]
            ELSE IF gte(m[k - 1], S.resultsdata_str[k][i][h]) > 0
                 THEN S.resultsdata_str[k][i][h] ELSE m[k - 1]
    IN  m[S.n_seeds]

\* tablegenerator::MinBySeeds
MinBySeeds(S, T) ==
    [T EXCEPT !.MinBySeeds_mat =
        [i \in 1..S.ninstances |-> [h \in 1..S.nalgorithms |-> SeedLeast(S, i, h)]]]

\* a deviation whose sum is divided by the number of the instances that
\* added a term
Deviation_of_counted(S, T, terms) ==
    LET counted == {i \in 1..S.ninstances :
                       DLess(Double(0), stod_double(T.MaxByAlg_MaxBySeeds_vect[i]))}
    IN  IF counted = {} THEN Double(1)
        ELSE DSub(Double(1),
                  DDiv(DSum([i \in 1..S.ninstances |->
                                IF i \in counted THEN terms[i] ELSE Double(0)]),
                       Double(Cardinality(counted))))

\* 1 - somma / ninstances, somma the sum of the terms of the instances whose
\* den is greater than 0
Deviation(S, T, terms) ==
    DSub(Double(1),
         DDiv(DSum([i \in 1..S.ninstances |->
                       IF DLess(Double(0), stod_double(T.MaxByAlg_MaxBySeeds_vect[i]))
                       THEN terms[i] ELSE Double(0)]),
              Double(S.ninstances)))

\* the quotient a term of a deviation adds; never used when den is 0
Quotient(num, den) == IF den.n = 0 THEN Double(0) ELSE DDiv(num, den)

\* tablegenerator::WorstDeviations
WorstDeviations(S, T) ==
    [T EXCEPT !.WD = [h \in 1..S.nalgorithms |->
        Deviation(S, T, [i \in 1..S.ninstances |->
            Quotient(stod_double(T.MinBySeeds_mat[i][h]),
                     stod_double(T.MaxByAlg_MaxBySeeds_vect[i]))])]]

\* tablegenerator::MeanDeviations
MeanDeviations(S, T) ==
    [T EXCEPT !.MD = [h \in 1..S.nalgorithms |->
        Deviation(S, T, [i \in 1..S.ninstances |->
            Quotient(DDiv(T.SumBySeeds_mat[i][h], Double(S.n_seeds)),
                     stod_double(T.MaxByAlg_MaxBySeeds_vect[i]))])]]

\* tablegenerator::BestDeviations
BestDeviations(S, T) ==
    [T EXCEPT !.BD = [h \in 1..S.nalgorithms |->
        Deviation(S, T, [i \in 1..S.ninstances |->
            Quotient(stod_double(T.MaxBySeeds_mat[i][h]),
                     stod_double(T.MaxByAlg_MaxBySeeds_vect[i]))])]]

\* a rank that also counts the algorithms of equal value
Rank_counts_ties(S, seed, i, h) ==
    1 + Cardinality({h1 \in 1..S.nalgorithms :
            h1 # h /\ gte(S.resultsdata_str[seed][i][h1], S.resultsdata_str[seed][i][h]) >= 0})

\* 1 + r of AvgRank: r the number of results of the other algorithms on the
\* seed and the instance that are greater than the result of h
Rank(S, seed, i, h) ==
    1 + Cardinality({h1 \in 1..S.nalgorithms :
            h1 # h /\ gte(S.resultsdata_str[seed][i][h1], S.resultsdata_str[seed][i][h]) > 0})

\* an average rank divided by the number of instances alone
AvgRank_per_instance(S, T) ==
    [T EXCEPT !.AR = [h \in 1..S.nalgorithms |->
        DDiv(DSum([i \in 1..S.ninstances |->
                      DSum([seed \in 1..S.n_seeds |-> Double(Rank(S, seed, i, h))])]),
             Double(S.ninstances))]]

\* tablegenerator::AvgRank
AvgRank(S, T) ==
    [T EXCEPT !.AR = [h \in 1..S.nalgorithms |->
        DDiv(DSum([i \in 1..S.ninstances |->
                      DSum([seed \in 1..S.n_seeds |-> Double(Rank(S, seed, i, h))])]),
             Double(S.n_seeds * S.ninstances))]]

\* ComputeStatistics: MaxByAlg(SumBySeeds_mat, MaxByAlg_SumBySeeds_vect)
Stat_MaxByAlg_Sum(S, T) ==
    [T EXCEPT !.MaxByAlg_SumBySeeds_vect = MaxByAlg_double(S, T.SumBySeeds_mat)]

\* tablegenerator::ComputeStatistics
ComputeStatistics(S, beyond) ==
    AvgRank(S, BestDeviations(S, MeanDeviations(S, WorstDeviations(S, MinBySeeds(S,
      MaxByAlgButOne_string(S,
        EarliestBestAchievedPercentage(S, BestAchievedPercentage(S, MaxByAlg_string(S,
          MaxBySeeds(S, FirstStrictPercentage(S,
            MaxByAlgButOne_double(S,
              FirstEqualPercentage(S, Stat_MaxByAlg_Sum(S, SumBySeeds(S,
                AllocateStatistics(S)))), beyond)))))), beyond))))))

-----------------------------------------------------------------------------
(* writetable, extract and extractChamp.                                   *)

\* compare_couple
compare_couple(couple1, couple2) ==
    IF DLess(couple2.criteria, couple1.criteria) THEN TRUE
    ELSE IF DLess(couple1.criteria, couple2.criteria) THEN FALSE
    ELSE IF DLess(couple2.criteria2, couple1.criteria2) THEN TRUE
    ELSE IF DLess(couple1.criteria2, couple2.criteria2) THEN FALSE
    ELSE couple2.index > couple1.index

\* writetable: the array handed to sort
sortarray(S, T) ==
    [k \in 1..S.nalgorithms |->
        [criteria |-> T.FE[k], criteria2 |-> DNeg(T.MD[k]), index |-> k - 1]]

\* std::sort(first, last, &compare_couple)
sort(arr) ==
    LET n == Len(arr)
        P == {f \in [1..n -> 1..n] : \A j, k \in 1..n : j # k => f[j] # f[k]}
        f == CHOOSE g \in P : \A j, k \in 1..n : j < k => compare_couple(arr[g[j]], arr[g[k]])
    IN  [k \in 1..n |-> arr[f[k]]]

\* writetable: the loop that reads data/Alg_names.csv into names
RECURSIVE read_alg_names(_, _)
read_alg_names(lines, names) ==
    IF lines = <<>> THEN [names |-> names, failed |-> FALSE]
    ELSE LET line == Head(lines)
         IN  IF ~Contains(line, ",") THEN [names |-> names, failed |-> TRUE]
             ELSE IF Substr(line, 0, Find(line, ",")) \in DOMAIN names
             THEN [names |-> names, failed |-> TRUE]
             ELSE read_alg_names(Tail(lines),
                      names @@ (Substr(line, 0, Find(line, ",")) :>
                                    SubstrFrom(line, Find(line, ",") + 1)))

\* writetable: the key of Algo_names whose index is hidx, empty when none
NameOfIndex(S, hidx) ==
    IF \E key \in DOMAIN S.Algo_names : S.Algo_names[key] = hidx
    THEN CHOOSE key \in DOMAIN S.Algo_names : S.Algo_names[key] = hidx
    ELSE <<>>

\* names[name] of std::unordered_map: an absent key gives the empty string
Lookup(names, name) == IF name \in DOMAIN names THEN names[name] ELSE <<>>

Hundred == Double(100)

\* writetable: the fields of the line written for the algorithm hidx
TableLine(S, T, names, hidx) ==
    LET p == IF S.absolute_values THEN 0 ELSE 1
        c == IF S.absolute_values THEN Double(1) ELSE Hundred
    IN  <<Lookup(names, NameOfIndex(S, hidx)),
          Fixed(DMul(T.FE[hidx + 1], c), p), Fixed(DMul(T.FS[hidx + 1], c), p),
          Fixed(DMul(T.BA[hidx + 1], c), p), Fixed(DMul(T.EBA[hidx + 1], c), p),
          Fixed(DMul(T.WD[hidx + 1], Hundred), 2), Fixed(DMul(T.MD[hidx + 1], Hundred), 2),
          Fixed(DMul(T.BD[hidx + 1], Hundred), 2), Fixed(T.AR[hidx + 1], 1)>>

Header == <<"Heuristic", "FE", "FS", "BA", "EBA", "WD", "MD", "BD", "AR">>

\* tablegenerator::writetable; file is data/Alg_names.csv: whether it opens,
\* and its lines
writetable(S, T, file) ==
    IF ~file.open THEN [failed |-> TRUE, lines |-> <<>>]
    ELSE LET R == read_alg_names(file.lines, <<>>)
         IN  IF R.failed THEN [failed |-> TRUE, lines |-> <<>>]
             ELSE [failed |-> FALSE,
                   lines  |-> <<Header>> \o
                       [h \in 1..S.nalgorithms |->
                           TableLine(S, T, R.names, sort(sortarray(S, T))[h].index)]]

\* a step of the loops that leaves count as it is at a new best
extract_step_keeps_count(S, i, k, prev) ==
    LET value == S.resultsdata_str[((k - 1) % S.n_seeds) + 1][i + 1]
                                  [((k - 1) \div S.n_seeds) + 1]
        first == (k - 1) % S.n_seeds = 0
        last  == (k - 1) % S.n_seeds = S.n_seeds - 1
        lc    == IF first THEN 0 ELSE prev.local_count
        d     == gte(prev.best, value)
        now   == IF d = 0 THEN [prev EXCEPT !.local_count = lc + 1]
                 ELSE IF d < 0
                 THEN [prev EXCEPT !.local_count = 1, !.best = value]
                 ELSE [prev EXCEPT !.local_count = lc]
    IN  IF last /\ now.local_count = S.n_seeds
        THEN [now EXCEPT !.count = @ + 1] ELSE now

\* extract: the body of the loop over the seeds for the instance i (an index
\* of the code), the algorithm (k - 1) \div n_seeds and the seed
\* (k - 1) % n_seeds, with the test of local_count after the last seed
extract_step(S, i, k, prev) ==
    LET value == S.resultsdata_str[((k - 1) % S.n_seeds) + 1][i + 1]
                                  [((k - 1) \div S.n_seeds) + 1]
        first == (k - 1) % S.n_seeds = 0
        last  == (k - 1) % S.n_seeds = S.n_seeds - 1
        lc    == IF first THEN 0 ELSE prev.local_count
        d     == gte(prev.best, value)
        now   == IF d = 0 THEN [prev EXCEPT !.local_count = lc + 1]
                 ELSE IF d < 0
                 THEN [count |-> 0, local_count |-> 1, best |-> value]
                 ELSE [prev EXCEPT !.local_count = lc]
    IN  IF last /\ now.local_count = S.n_seeds
        THEN [now EXCEPT !.count = @ + 1] ELSE now

\* extract: the loops over the algorithms and the seeds of the instance i, as
\* one loop over k = h * n_seeds + s + 1; the state before a step is a value
\* by the time the step reads it
ExtractCount(S, i) ==
    LET m[k \in 0..(S.nalgorithms * S.n_seeds)] ==
            IF k = 0 THEN [count |-> 0, local_count |-> 0, best |-> <<"0">>]
            ELSE CHOOSE now \in {extract_step(S, i, k, prev) : prev \in {m[k - 1]}} : TRUE
    IN  m[S.nalgorithms * S.n_seeds].count

\* extract: the threshold
Threshold(S, level) ==
    IF level < 0 THEN DDiv(Double(S.nalgorithms), Double(2)) ELSE Double(level)

\* tablegenerator::extract; order is the order in which the loop meets the
\* names of Inst_names
extract(S, level, order) ==
    LET rej(name) == DLess(Threshold(S, level), Double(ExtractCount(S, S.Inst_names[name])))
    IN  [lines    |-> SelectSeq(order, LAMBDA name : ~rej(name)),
         rejected |-> Len(SelectSeq(order, rej)),
         accepted |-> Len(SelectSeq(order, LAMBDA name : ~rej(name)))]

\* a switch whose case 1 also finds the instances of a tie with the others
found_with_ties(T, cMetric, i, h) ==
    CASE cMetric = 0 -> T.SumBySeeds_mat[i + 1][h + 1] = T.MaxByAlg_SumBySeeds_vect[i + 1]
      [] cMetric = 1 -> ~DLess(T.SumBySeeds_mat[i + 1][h + 1],
                               T.MaxByAlgButOne_SumBySeeds_mat[i + 1][h + 1])
      [] cMetric = 2 -> gte(T.MaxBySeeds_mat[i + 1][h + 1], T.MaxByAlg_MaxBySeeds_vect[i + 1]) = 0
      [] cMetric = 3 -> /\ gte(T.MaxBySeeds_mat[i + 1][h + 1],
                               T.MaxByAlg_MaxBySeeds_vect[i + 1]) = 0
                        /\ gte(T.TimeMaxBySeeds_mat[i + 1][h + 1],
                               T.TimeMaxByAlg_MaxBySeeds_vect[i + 1]) = 0

\* extractChamp: the switch on cMetric for the instance i and the algorithm h
\* (indices of the code)
found(T, cMetric, i, h) ==
    CASE cMetric = 0 -> T.SumBySeeds_mat[i + 1][h + 1] = T.MaxByAlg_SumBySeeds_vect[i + 1]
      [] cMetric = 1 -> DLess(T.MaxByAlgButOne_SumBySeeds_mat[i + 1][h + 1],
                              T.SumBySeeds_mat[i + 1][h + 1])
      [] cMetric = 2 -> gte(T.MaxBySeeds_mat[i + 1][h + 1], T.MaxByAlg_MaxBySeeds_vect[i + 1]) = 0
      [] cMetric = 3 -> /\ gte(T.MaxBySeeds_mat[i + 1][h + 1],
                               T.MaxByAlg_MaxBySeeds_vect[i + 1]) = 0
                        /\ gte(T.TimeMaxBySeeds_mat[i + 1][h + 1],
                               T.TimeMaxByAlg_MaxBySeeds_vect[i + 1]) = 0

\* tablegenerator::extractChamp
extractChamp(S, T, cMetric, name, order) ==
    IF name \notin DOMAIN S.Algo_names
    THEN [failed |-> TRUE, lines |-> <<>>, rejected |-> 0, accepted |-> 0]
    ELSE LET hit(inst) == found(T, cMetric, S.Inst_names[inst], S.Algo_names[name])
         IN  [failed   |-> FALSE,
              lines    |-> SelectSeq(order, hit),
              rejected |-> Len(SelectSeq(order, LAMBDA inst : ~hit(inst))),
              accepted |-> Len(SelectSeq(order, hit))]

-----------------------------------------------------------------------------
(* main: the options, the parameter file and the calls that follow.        *)

\* atof: an optional minus sign, then the decimal; 0 when there is no number
atof(s) ==
    IF s # <<>> /\ s[1] = "-"
    THEN IF Len(s) > 1 /\ s[2] \in DigitChars
         THEN [m |-> 0 - stod(Tail(s)).m, e |-> stod(Tail(s)).e] ELSE [m |-> 0, e |-> 0]
    ELSE IF s # <<>> /\ s[1] \in DigitChars THEN stod(s) ELSE [m |-> 0, e |-> 0]

\* main: the locals after the loop over getopt; an option that is not given
\* has an empty argument and leaves its local at the initial value
getopt(cl) ==
    [parameterfile   |-> cl.p,
     difficult       |-> cl.d,
     rInstances      |-> cl.r,
     champ           |-> cl.c,
     cMetric         |-> IF cl.m = <<>> THEN 0 ELSE stoi(cl.m),
     level           |-> IF cl.l = <<>> THEN -1 ELSE stoi(cl.l),
     scaling         |-> IF cl.s = <<>> THEN [m |-> -1, e |-> 0] ELSE atof(cl.s),
     print_help      |-> cl.h,
     absolute_values |-> cl.a]

Zero == [m |-> 0, e |-> 0]
One == [m |-> 1, e |-> 0]

\* main: the default of the scaling, taken for every negative value
default_scaling_unless_given(L) ==
    IF DecCompare(L.scaling, Zero) < 0 THEN One ELSE L.scaling

\* main: the tests of the options, lines 1151 to 1202
check_options(L) ==
    LET scaling == default_scaling_unless_given(L)
    IN  IF L.print_help THEN L
        ELSE [L EXCEPT
                !.scaling = scaling,
                !.print_help =
                    \/ ~L.parameterfile
                    \/ L.level >= 0 /\ ~L.difficult
                    \/ L.difficult /\ (DecCompare(L.scaling, Zero) >= 0 \/ L.absolute_values)
                    \/ L.rInstances /\ L.champ = <<>>
                    \/ ~L.rInstances /\ L.champ # <<>>
                    \/ L.cMetric > 0 /\ (~L.rInstances \/ L.champ = <<>>)
                    \/ L.cMetric > 3
                    \/ DecCompare(scaling, One) > 0
                    \/ DecCompare(scaling, Zero) <= 0]

\* the k-th word operator >> reads from the parameter file; the string stays
\* empty when the file has no such word
Word(words, k) == IF k <= Len(words) THEN words[k] ELSE ""

\* tablegenerator::read_parameters
read_parameters(S, file) ==
    LET words == file.words
        iset  == Word(words, 2)
        a     == IF iset = "all_instances" THEN 3 ELSE 4
        aset  == Word(words, a)
        o     == IF aset = "all_algorithms" THEN a + 1 ELSE a + 2
        R     == [S |-> [S EXCEPT !.instance_set = iset], failed |-> TRUE,
                  instance_names_file |-> "", algorithm_names_file |-> ""]
    IN  IF ~file.open THEN [R EXCEPT !.S = S]
        ELSE IF iset \notin {"all_instances", "some_instances"} THEN R
        ELSE IF aset \notin {"all_algorithms", "some_algorithms"}
        THEN [R EXCEPT !.S.algorithm_set = aset]
        ELSE [S |-> [S EXCEPT !.instance_set = iset, !.algorithm_set = aset],
              failed |-> Word(words, o) = "",
              instance_names_file  |-> IF iset = "all_instances" THEN "" ELSE Word(words, 3),
              algorithm_names_file |-> IF aset = "all_algorithms" THEN ""
                                       ELSE Word(words, a + 1)]

\* the instance selection left as the parameter file gives it
Set_instances_set_not_set(S) == S

\* tablegenerator::Set_instances_set
Set_instances_set(S) == [S EXCEPT !.instance_set = "all_instances"]

\* read_results_file that returns whatever names the rows have used
read_results_file_unchecked(S, rows) ==
    [S |-> end_results_file(IngestRows(begin_results_file(S), rows)).S, failed |-> FALSE]

\* tablegenerator::read_results_file on a whole log
read_results_file(S, rows) == end_results_file(IngestRows(begin_results_file(S), rows))

-----------------------------------------------------------------------------
(* The inputs of a run: parameter file, inclusion lists, rows of the log.  *)

Inst1 == <<"i", "1">>
Inst2 == <<"i", "2">>
Algo1 == <<"a", "1">>
Algo2 == <<"a", "2">>
Seed1 == <<"s", "1">>
Seed2 == <<"s", "2">>

\* an instance list with a comment line, a blank line, a repeated name and a
\* line with spaces and a carriage return; and a list of one name
InstanceFiles ==
    {<<Inst2, <<"#", "i", "1">>, <<>>, Inst2, <<" ", "i", "1", "\r">>>>, <<Inst2>>}

AlgorithmFiles == {<<Algo1>>}

\* what the members of a default-initialised tablegenerator may hold
Uninitialised == {0, 3}

\* time_limit_scaling as main sets it: 1.0 and 0.5
Scalings == {[m |-> 1, e |-> 0], [m |-> 5, e |-> -1]}

\* the object TB of main after read_parameters
InitialTB(iset, aset, scaling, g) ==
    [instance_set |-> iset, algorithm_set |-> aset, time_limit_scaling |-> scaling,
     ninstances |-> g, nalgorithms |-> g, n_seeds |-> g,
     Inst_names |-> <<>>, Algo_names |-> <<>>, Seed_names |-> <<>>,
     resultsdata |-> <<>>, resultsdata_str |-> <<>>, resultstime |-> <<>>,
     absolute_values |-> FALSE,
     used_instances |-> <<>>, used_algorithms |-> <<>>,
     skipped_alg |-> 0, skipped_inst |-> 0,
     InstIdx |-> 0, AlgoIdx |-> 0, SeedIdx |-> 0, nLine |-> 0]

\* a history field: the pairs value:time joined by ';' inside brackets
RECURSIVE JoinPairs(_)
JoinPairs(pairs) ==
    IF pairs = <<>> THEN <<>>
    ELSE Head(pairs)[1] \o <<":">> \o Head(pairs)[2]
           \o (IF Len(pairs) > 1 THEN <<";">> ELSE <<>>) \o JoinPairs(Tail(pairs))

FormatHistory(pairs) == <<"[">> \o JoinPairs(pairs) \o <<"]">>

Row(i, a, s, tl, obj, t, n, h) ==
    [instance |-> i, algorithm |-> a, seed |-> s, time_limit |-> tl,
     objective |-> obj, time |-> t, fields |-> n, history |-> h]

\* the two shapes of a row of the ingestion runs: seven fields, and eight
\* fields with the history 10:1.0;20:3.5;15:9.0 under the time limit 5.0
SampleHistory ==
    <<<< <<"1", "0">>, <<"1", ".", "0">> >>,
      << <<"2", "0">>, <<"3", ".", "5">> >>,
      << <<"1", "5">>, <<"9", ".", "0">> >>>>

Payloads ==
    {[time_limit |-> <<"5", ".", "0">>, objective |-> <<"1", "0">>,
      time |-> <<"1", ".", "0">>, fields |-> 7, history |-> <<>>],
     [time_limit |-> <<"5", ".", "0">>, objective |-> <<"1", "5">>,
      time |-> <<"9", ".", "0">>, fields |-> 8, history |-> FormatHistory(SampleHistory)]}

\* the first seed on every instance, algorithm and shape of row, the second
\* seed on the seven-field rows of the first instance
LogRows ==
    {Row(i, a, s, p.time_limit, p.objective, p.time, p.fields, p.history) :
        i \in {Inst1, Inst2}, a \in {Algo1, Algo2},
        s \in {Seed1, Seed2}, p \in Payloads} \
    {row \in {Row(i, a, Seed2, p.time_limit, p.objective, p.time, p.fields, p.history) :
                i \in {Inst1, Inst2}, a \in {Algo1, Algo2}, p \in Payloads} :
        row.instance # Inst1 \/ row.fields # 7}

\* the rows of the history runs: every history of at most MaxHist pairs
HistValues == {<<"1", "0">>, <<"2", "0">>}
HistTimes  == {<<"1", ".", "0">>, <<"3", ".", "5">>, <<"9", ".", "0">>}
Histories  == UNION {[1..k -> HistValues \X HistTimes] : k \in 0..MaxHist}

HistoryRows ==
    {Row(Inst1, Algo1, Seed1, tl, own[1], own[2], 8, FormatHistory(h)) :
        tl \in {<<"5", ".", "0">>, <<"7", ".", "0">>, <<"0", ".", "5">>},
        own \in {<< <<"2", "0">>, <<"3", ".", "5">> >>, << <<"7">>, <<"2", ".", "0">> >>},
        h \in Histories}

\* the complete Results Tables of the statistics runs: the numbers of seeds,
\* instances and algorithms, and a value and a time for every cell
Algo3 == <<"a", "3">>

SeedNames == <<Seed1, Seed2>>
InstNames == <<Inst1, Inst2>>
AlgoNames == <<Algo1, Algo2, Algo3>>

Shapes == {<<1, 2, 2>>, <<2, 1, 3>>, <<2, 2, 2>>, <<1, 2, 1>>}

ExtractShapes == {<<1, 2, 2>>, <<2, 1, 3>>, <<1, 2, 1>>}

Positions(shape) == (1..shape[1]) \X (1..shape[2]) \X (1..shape[3])

BaseCell == [value |-> <<"3", "0">>, time |-> <<"1", ".", "0">>]

OtherCells ==
    {[value |-> <<"1", "0">>, time |-> <<"1", ".", "0">>],
     [value |-> <<"2", "0">>, time |-> <<"2", ".", "0">>],
     [value |-> <<"0">>, time |-> <<"0">>],
     [value |-> <<"3", "e", "1">>, time |-> <<"0", ".", "5">>]}

\* every table in which at most MaxVaried cells differ from BaseCell
Tables(shape) ==
    UNION {{[p \in Positions(shape) |-> IF p \in D THEN f[p] ELSE BaseCell] :
               f \in [D -> OtherCells]} :
           D \in {E \in SUBSET Positions(shape) : Cardinality(E) <= MaxVaried}}

\* the log with one seven-field row for every cell of a table, seed by seed
CompleteLog(shape, table) ==
    [k \in 1..(shape[1] * shape[2] * shape[3]) |->
        LET s == ((k - 1) \div (shape[2] * shape[3])) + 1
            i == (((k - 1) \div shape[3]) % shape[2]) + 1
            a == ((k - 1) % shape[3]) + 1
        IN  Row(InstNames[i], AlgoNames[a], SeedNames[s], <<"5", ".", "0">>,
                table[<<s, i, a>>].value, table[<<s, i, a>>].time, 7, <<>>)]

\* data/Alg_names.csv: complete, without a2, with a line without ',', with a
\* name twice, and missing
AlgNamesFiles ==
    {[open |-> TRUE, lines |-> << <<"a", "1", ",", "A">>, <<"a", "2", ",", "B">>,
                                  <<"a", "3", ",", "C">> >>],
     [open |-> TRUE, lines |-> << <<"a", "1", ",", "A">>, <<"a", "3", ",", "C">> >>],
     [open |-> TRUE, lines |-> << <<"a", "1", ",", "A">>, <<"a", "2">> >>],
     [open |-> TRUE, lines |-> << <<"a", "1", ",", "A">>, <<"a", "1", ",", "B">> >>],
     [open |-> FALSE, lines |-> <<>>]}

\* the values of option -l, and -1 when it is not given
Levels == {-1, 0, 1, 2}

\* the values of option -m that main accepts
Metrics == 0..3

\* the values of option -c
ChampNames == {Algo1, Algo2, Algo3}

\* what a read of in_mat[i][1] past the end of a row of one element gives
Beyond(S) ==
    IF S.nalgorithms = 1
    THEN {[number |-> Double(0), text |-> <<>>], [number |-> Double(1000), text |-> <<"9", "9">>]}
    ELSE {[number |-> Double(0), text |-> <<>>]}

\* the orders in which a range-based for loop can meet the keys of an
\* unordered_map
Orders(reg) ==
    LET n == Cardinality(DOMAIN reg)
    IN  {o \in [1..n -> DOMAIN reg] : \A j, k \in 1..n : j # k => o[j] # o[k]}

\* the command lines: every option given or not, -s with values inside
\* and outside (0, 1], -m with a metric and with a number above 3
CommandLines ==
    [p : BOOLEAN, d : BOOLEAN, r : BOOLEAN, h : BOOLEAN, a : BOOLEAN,
     c : {<<>>, Algo1},
     m : {<<>>, <<"1">>, <<"4">>},
     l : {<<>>, <<"1">>},
     s : {<<>>, <<"0">>, <<"-", "0", ".", "5">>, <<"0", ".", "5">>, <<"1">>,
          <<"1", ".", "5">>}]

\* the command line of the runs that do not start at main
NoCommandLine ==
    [cl |-> [p |-> FALSE, d |-> FALSE, r |-> FALSE, h |-> FALSE, a |-> FALSE,
             c |-> <<>>, m |-> <<>>, l |-> <<>>, s |-> <<>>],
     file |-> [open |-> FALSE, words |-> <<>>]]

\* the parameter files: every combination of the two selections, a file
\* with an unknown selection word, a file without the last word, and a file
\* that does not open
ParameterFiles ==
    {[open |-> TRUE, words |-> w] :
        w \in {<<"res", "all_instances", "all_algorithms", "stat">>,
               <<"res", "some_instances", "I", "all_algorithms", "stat">>,
               <<"res", "some_instances", "J", "all_algorithms", "stat">>,
               <<"res", "some_instances", "K", "all_algorithms", "stat">>,
               <<"res", "all_instances", "some_algorithms", "A", "stat">>,
               <<"res", "some_instances", "J", "some_algorithms", "A", "stat">>,
               <<"res", "every_instance", "all_algorithms", "stat">>,
               <<"res", "all_instances", "all_algorithms">>}}
    \cup {[open |-> FALSE, words |-> <<>>]}

\* the lines of the inclusion lists the parameter files name; K is a file
\* with CRLF line ends and a blank line
ListFile(name) ==
    CASE name = "I" -> <<Inst2, <<"#", "i", "1">>, <<>>, Inst2, <<" ", "i", "1", "\r">>>>
      [] name = "J" -> <<Inst2>>
      [] name = "K" -> <<Inst1 \o <<"\r">>, <<"\r">>, Inst2 \o <<"\r">>>>
      [] name = "A" -> <<Algo1>>
      [] OTHER -> <<>>

\* the logs of the runs from main: complete tables with equal cells and with
\* one cell apart
MainTables(shape) ==
    {[q \in Positions(shape) |-> BaseCell],
     [q \in Positions(shape) |-> IF q = <<1, 1, 1>> THEN [value |-> <<"1", "0">>,
                                                         time |-> <<"1", ".", "0">>]
                                 ELSE BaseCell]}

MainLogs ==
    {CompleteLog(shape, table) : shape \in {<<1, 2, 2>>}, table \in MainTables(<<1, 2, 2>>)}
    \cup {CompleteLog(shape, table) : shape \in {<<2, 1, 3>>}, table \in MainTables(<<2, 1, 3>>)}

-----------------------------------------------------------------------------
(* The run of main up to the end of read_results_file.                     *)

CmpIdle == u = <<>> /\ v = <<>> /\ cmp = 0 /\ cpc = "idle"

\* nothing written
NoOutput == [lines |-> <<>>, rejected |-> 0, accepted |-> 0]

\* no statistics computed, no call made, nothing written
StatIdle == ST = <<>> /\ args = [call |-> "none"] /\ out = NoOutput

IngestIdle ==
    /\ TB = InitialTB("all_instances", "all_algorithms", [m |-> 1, e |-> 0], 0)
    /\ instance_names_file = <<>>
    /\ algorithm_names_file = <<>>
    /\ log = <<>>
    /\ pc = "idle"

Init ==
    /\ CmpIdle
    /\ argv = NoCommandLine
    /\ StatIdle
    /\ \E g \in Uninitialised :
         \/ /\ instance_names_file = <<>>
            /\ \/ /\ algorithm_names_file = <<>>
                  /\ TB = InitialTB("all_instances", "all_algorithms", [m |-> 1, e |-> 0], g)
               \/ /\ algorithm_names_file \in AlgorithmFiles
                  /\ TB = InitialTB("all_instances", "some_algorithms", [m |-> 1, e |-> 0], g)
         \/ /\ instance_names_file \in InstanceFiles
            /\ \/ /\ algorithm_names_file = <<>>
                  /\ TB = InitialTB("some_instances", "all_algorithms", [m |-> 1, e |-> 0], g)
               \/ /\ algorithm_names_file \in AlgorithmFiles
                  /\ TB = InitialTB("some_instances", "some_algorithms", [m |-> 1, e |-> 0], g)
    /\ log = <<>>
    /\ pc = "read_selected_instances"

InitHist ==
    /\ CmpIdle
    /\ argv = NoCommandLine
    /\ StatIdle
    /\ \E g \in Uninitialised, sc \in Scalings :
         TB = InitialTB("all_instances", "all_algorithms", sc, g)
    /\ instance_names_file = <<>>
    /\ algorithm_names_file = <<>>
    /\ log = <<>>
    /\ pc = "read_selected_instances"

\* main, line 1243
ReadSelectedInstances ==
    /\ pc = "read_selected_instances"
    /\ TB' = read_selected_instances(TB, instance_names_file)
    /\ pc' = "read_selected_algorithms"
    /\ UNCHANGED <<argv, cmpVars, statVars, instance_names_file, algorithm_names_file, log>>

\* main, line 1244
ReadSelectedAlgorithms ==
    /\ pc = "read_selected_algorithms"
    /\ TB' = read_selected_algorithms(TB, algorithm_names_file)
    /\ pc' = "read_results_file"
    /\ UNCHANGED <<argv, cmpVars, statVars, instance_names_file, algorithm_names_file, log>>

\* read_results_file up to its while loop
OpenResultsFile ==
    /\ pc = "read_results_file"
    /\ TB' = begin_results_file(TB)
    /\ pc' = "getline"
    /\ UNCHANGED <<argv, cmpVars, statVars, instance_names_file, algorithm_names_file, log>>

\* one iteration of the while loop
ReadRow(row) ==
    /\ pc = "getline"
    /\ TB' = read_row(TB, row)
    /\ log' = Append(log, row)
    /\ UNCHANGED <<argv, cmpVars, statVars, instance_names_file, algorithm_names_file, pc>>

\* getline fails: the end of read_results_file
EndOfFile ==
    /\ pc = "getline"
    /\ LET E == end_results_file(TB)
       IN  /\ TB' = E.S
           /\ pc' = IF E.failed THEN "exit" ELSE "END OF INPUT"
    /\ UNCHANGED <<argv, cmpVars, statVars, instance_names_file, algorithm_names_file, log>>

ReadLogRow == \E row \in LogRows : Len(log) < MaxRows /\ ReadRow(row)

ReadHistoryRow == \E row \in HistoryRows : log = <<>> /\ ReadRow(row)

Next ==
    \/ ReadSelectedInstances
    \/ ReadSelectedAlgorithms
    \/ OpenResultsFile
    \/ ReadLogRow
    \/ EndOfFile

NextHist ==
    \/ ReadSelectedInstances
    \/ ReadSelectedAlgorithms
    \/ OpenResultsFile
    \/ ReadHistoryRow
    \/ EndOfFile

\* a log that is a prefix of some rows followed by the same rows again
DoubledPrefix(l) ==
    \E h \in 1..MaxPass : Len(l) <= 2 * h /\ \A k \in (h + 1)..Len(l) : l[k] = l[k - h]

ReadRepeatedRow == \E row \in LogRows : DoubledPrefix(Append(log, row)) /\ ReadRow(row)

NextTwice ==
    \/ ReadSelectedInstances
    \/ ReadSelectedAlgorithms
    \/ OpenResultsFile
    \/ ReadRepeatedRow
    \/ EndOfFile

Spec == Init /\ [][Next]_vars

SpecTwice == Init /\ [][NextTwice]_vars

SpecHist == InitHist /\ [][NextHist]_vars

-----------------------------------------------------------------------------
(* The run of main after read_results_file, on a complete Results Table.   *)

InitComplete(shapes) ==
    /\ CmpIdle
    /\ argv = NoCommandLine
    /\ StatIdle
    /\ instance_names_file = <<>>
    /\ algorithm_names_file = <<>>
    /\ \E shape \in shapes, absolute_values \in BOOLEAN :
         \E table \in Tables(shape) :
            /\ log = CompleteLog(shape, table)
            /\ TB = [end_results_file(IngestRows(
                         begin_results_file(InitialTB("all_instances", "all_algorithms",
                                                      [m |-> 1, e |-> 0], 0)), log)).S
                     EXCEPT !.absolute_values = absolute_values]
    /\ pc = "END OF INPUT"

InitStat == InitComplete(Shapes)

InitExtract == InitComplete(ExtractShapes)

\* main: extract when option -d is given, which excludes option -a
Extract ==
    /\ pc = "END OF INPUT"
    /\ ~TB.absolute_values
    /\ \E level \in Levels, order \in Orders(TB.Inst_names) :
         /\ out' = extract(TB, level, order)
         /\ args' = [call |-> "extract", level |-> level]
    /\ pc' = "return"
    /\ UNCHANGED <<argv, cmpVars, TB, instance_names_file, algorithm_names_file, log, ST>>

\* main: ComputeStatistics
ComputeStatisticsCall ==
    /\ pc = "END OF INPUT"
    /\ \E beyond \in Beyond(TB) : ST' = ComputeStatistics(TB, beyond)
    /\ pc' = "statistics"
    /\ UNCHANGED <<argv, cmpVars, TB, instance_names_file, algorithm_names_file, log, args, out>>

\* ComputeStatistics with one algorithm: the read past the end of a row of
\* strings ends the process
ComputeStatisticsCrash ==
    /\ pc = "END OF INPUT"
    /\ TB.nalgorithms = 1
    /\ pc' = "crash"
    /\ UNCHANGED <<argv, cmpVars, TB, instance_names_file, algorithm_names_file, log, statVars>>

\* main: extractChamp when option -r is given
ExtractChamp ==
    /\ pc = "statistics"
    /\ \E cMetric \in Metrics, name \in ChampNames, order \in Orders(TB.Inst_names) :
         LET X == extractChamp(TB, ST, cMetric, name, order)
         IN  /\ out' = [lines |-> X.lines, rejected |-> X.rejected, accepted |-> X.accepted]
             /\ args' = [call |-> "extractChamp", cMetric |-> cMetric, name |-> name]
             /\ pc' = IF X.failed THEN "exit" ELSE "END STATISTICS"
    /\ UNCHANGED <<argv, cmpVars, TB, instance_names_file, algorithm_names_file, log, ST>>

\* main: writetable otherwise
WriteTable ==
    /\ pc = "statistics"
    /\ \E file \in AlgNamesFiles :
         LET W == writetable(TB, ST, file)
         IN  /\ out' = [lines |-> W.lines, rejected |-> 0, accepted |-> 0]
             /\ args' = [call |-> "writetable", file |-> file]
             /\ pc' = IF W.failed THEN "exit" ELSE "END STATISTICS"
    /\ UNCHANGED <<argv, cmpVars, TB, instance_names_file, algorithm_names_file, log, ST>>

\* main without the options -d and -r
NextStat ==
    \/ ComputeStatisticsCall
    \/ ComputeStatisticsCrash
    \/ WriteTable

\* main with the option -d or the option -r
NextExtract ==
    \/ Extract
    \/ ComputeStatisticsCall
    \/ ComputeStatisticsCrash
    \/ ExtractChamp

SpecStat == InitStat /\ [][NextStat]_vars

SpecExtract == InitExtract /\ [][NextExtract]_vars

-----------------------------------------------------------------------------
(* The whole run of main, from the command line to the return.             *)

\* main: the locals after the tests of the options
Locals == check_options(getopt(argv.cl))

InitMain ==
    /\ CmpIdle
    /\ StatIdle
    /\ argv \in [cl : CommandLines, file : ParameterFiles]
    /\ \E g \in Uninitialised : TB = InitialTB("", "", Zero, g)
    /\ instance_names_file = <<>>
    /\ algorithm_names_file = <<>>
    /\ log = <<>>
    /\ pc = "main"

\* main, lines 1100 to 1240: the options, their tests, the usage message and
\* the exit, or the object TB with its scaling
CheckOptions ==
    /\ pc = "main"
    /\ IF Locals.print_help
       THEN pc' = "exit" /\ TB' = TB
       ELSE pc' = "read_parameters" /\ TB' = [TB EXCEPT !.time_limit_scaling = Locals.scaling]
    /\ UNCHANGED <<argv, cmpVars, statVars, instance_names_file, algorithm_names_file, log>>

\* main, line 1241
ReadParameters ==
    /\ pc = "read_parameters"
    /\ LET R == read_parameters(TB, argv.file)
       IN  /\ TB' = R.S
           /\ instance_names_file' = ListFile(R.instance_names_file)
           /\ algorithm_names_file' = ListFile(R.algorithm_names_file)
           /\ pc' = IF R.failed THEN "exit"
                    ELSE IF Locals.difficult THEN "Set_instances_set"
                    ELSE "read_selected_instances"
    /\ UNCHANGED <<argv, cmpVars, statVars, log>>

\* main, line 1242
SetInstancesSet ==
    /\ pc = "Set_instances_set"
    /\ TB' = Set_instances_set(TB)
    /\ pc' = "read_selected_instances"
    /\ UNCHANGED <<argv, cmpVars, statVars, instance_names_file, algorithm_names_file, log>>

\* main, lines 1245 and 1246
ReadResultsFile ==
    /\ pc = "read_results_file"
    /\ \E rows \in MainLogs :
         LET E == read_results_file(TB, rows)
         IN  /\ log' = rows
             /\ TB' = [E.S EXCEPT !.absolute_values = Locals.absolute_values]
             /\ pc' = IF E.failed THEN "exit" ELSE "END OF INPUT"
    /\ UNCHANGED <<argv, cmpVars, statVars, instance_names_file, algorithm_names_file>>

\* main, line 1251
MainExtract == Locals.difficult /\ Extract /\ args'.level = Locals.level

\* main, line 1254
MainComputeStatistics ==
    ~Locals.difficult /\ (ComputeStatisticsCall \/ ComputeStatisticsCrash)

\* main, line 1256
MainExtractChamp ==
    /\ Locals.rInstances
    /\ ExtractChamp
    /\ args'.cMetric = Locals.cMetric
    /\ args'.name = Locals.champ

\* main, line 1258
MainWriteTable == ~Locals.rInstances /\ WriteTable

NextMain ==
    \/ CheckOptions
    \/ ReadParameters
    \/ SetInstancesSet
    \/ ReadSelectedInstances
    \/ ReadSelectedAlgorithms
    \/ ReadResultsFile
    \/ MainExtract
    \/ MainComputeStatistics
    \/ MainExtractChamp
    \/ MainWriteTable

SpecMain == InitMain /\ [][NextMain]_vars

-----------------------------------------------------------------------------
(* The comparator applied to a pair of operands.                           *)

InitGte ==
    /\ argv = NoCommandLine
    /\ u \in Operands
    /\ v = <<>>
    /\ cmp = 0
    /\ cpc = "operand"
    /\ IngestIdle
    /\ StatIdle

ApplyGte ==
    /\ cpc = "operand"
    /\ \E w \in Operands : v' = w /\ cmp' = gte(u, w)
    /\ cpc' = "compared"
    /\ UNCHANGED <<argv, u, TB, instance_names_file, algorithm_names_file, log, pc, statVars>>

NextGte == ApplyGte

SpecGte == InitGte /\ [][NextGte]_vars

\* decimal strings with and without a leading minus sign
SignedOperands ==
    {<<"0">>, <<"3">>, <<"5">>, <<"3", "0">>, <<"2", ".", "5">>,
     <<"-", "3">>, <<"-", "5">>, <<"-", "3", "0">>, <<"-", "2", ".", "5">>,
     <<"-", "0", ".", "5">>, <<"-", "3", "e", "1">>}

InitSigned ==
    /\ argv = NoCommandLine
    /\ u \in SignedOperands
    /\ v = <<>>
    /\ cmp = 0
    /\ cpc = "operand"
    /\ IngestIdle
    /\ StatIdle

ApplySignedGte ==
    /\ cpc = "operand"
    /\ \E w \in SignedOperands : v' = w /\ cmp' = gte(u, w)
    /\ cpc' = "compared"
    /\ UNCHANGED <<argv, u, TB, instance_names_file, algorithm_names_file, log, pc, statVars>>

NextSigned == ApplySignedGte

SpecSigned == InitSigned /\ [][NextSigned]_vars

-----------------------------------------------------------------------------
(* The comparator: claims C1 and C2.                                       *)

Str5     == <<"5">>
Str100   == <<"1", "0", "0">>

\* C1: gte returns 0 (equal) for any two spellings of the same non-negative
\* value: a string and itself, extra leading zeros, a decimal point with
\* trailing zeros, scientific notation with the marker 'e'.
C1_EqualSpellings ==
    /\ (cpc = "compared" /\ NumCompare(u, v) = 0) => cmp = 0
    /\ gte(<<"0", "0", "0", "5">>, Str5) = 0
    /\ gte(<<"5", ".", "0">>, Str5) = 0
    /\ gte(<<"5", "e", "0">>, Str5) = 0
    /\ gte(<<"1", "e", "2">>, Str100) = 0

\* two different spellings of one value, one scientific and one with a
\* decimal point, were compared
C1_Witness ==
    /\ cpc = "compared" /\ cmp = 0 /\ u # v
    /\ Contains(u, "e") /\ Contains(v, ".") /\ ~Contains(v, "e")
    /\ NumCompare(u, v) = 0 /\ stod(u).m > 0

\* operands the transitivity of gte is tried against
Pivots ==
    {<<"0">>, Str5, <<"0", ".", "5">>, <<"1", "e", "-", "1">>, <<"1", "0">>, <<"5", "e", "2">>}

\* C2: gte(u, v) is 1, 0 or -1 exactly when the value of u is greater than,
\* equal to or less than the value of v; hence gte(u, v) = -gte(v, u), and
\* the relation is transitive.
C2_NumericOrder ==
    /\ cpc = "compared" =>
          /\ cmp = NumCompare(u, v)
          /\ gte(v, u) = 0 - cmp
          /\ \A w \in Pivots :
                /\ (cmp >= 0 /\ gte(v, w) >= 0) => gte(u, w) >= 0
                /\ (gte(w, u) >= 0 /\ cmp >= 0) => gte(w, v) >= 0
    /\ gte(<<"9", "9">>, Str100) = -1

\* the longer string, in scientific notation, is the smaller value
C2_Witness ==
    /\ cpc = "compared" /\ cmp = -1
    /\ Len(u) > Len(v) /\ Contains(u, "e") /\ stod(u).m > 0

-----------------------------------------------------------------------------
(* The history replay: claims C3, C4 and C5.                               *)

\* the pieces of s between the occurrences of c
RECURSIVE SplitAt(_, _)
SplitAt(s, c) ==
    IF ~Contains(s, c) THEN <<s>>
    ELSE <<SubSeq(s, 1, Find(s, c))>> \o SplitAt(SubSeq(s, Find(s, c) + 2, Len(s)), c)

\* the (value, time) pairs of a history field, in the order they are written
PairsOf(history) ==
    LET body == SubSeq(history, 2, Len(history) - 1)
        toks == SplitAt(body, ";")
    IN  IF body = <<>> THEN <<>>
        ELSE [k \in 1..Len(toks) |-> <<SplitAt(toks[k], ":")[1], SplitAt(toks[k], ":")[2]>>]

\* the row read last
LastRow == log[Len(log)]

\* the (value, time) the Results Table holds under the key of a row
Cell(row) ==
    LET s == TB.Seed_names[row.seed] + 1
        i == TB.Inst_names[row.instance] + 1
        a == TB.Algo_names[row.algorithm] + 1
    IN  <<TB.resultsdata_str[s][i][a], TB.resultstime[s][i][a]>>

\* declared time limit times time_limit_scaling
EffectiveLimit(row) == DecMul(stod(row.time_limit), TB.time_limit_scaling)

\* the positions of the pairs whose time does not exceed the limit
Within(pairs, limit) ==
    {k \in 1..Len(pairs) : DecCompare(stod(pairs[k][2]), limit) <= 0}

Last(K) == CHOOSE k \in K : \A j \in K : j <= k

HistoryRowRead == log # <<>> /\ LastRow.fields = 8 /\ Len(LastRow.history) > 2

\* C3 as stated: the row's cell holds the chronologically last history pair
\* whose time does not exceed the effective limit.
C3_Original ==
    HistoryRowRead =>
        LET pairs == PairsOf(LastRow.history)
            K     == Within(pairs, EffectiveLimit(LastRow))
        IN  K # {} => Cell(LastRow) = pairs[Last(K)]

\* C3 amended: the row's cell holds the chronologically last history pair
\* whose time does not exceed the effective limit when that pair is not the
\* most recent pair of the history; when the most recent pair is within the
\* limit the cell holds the value and time of the row's own columns. The
\* history 10:1.0;20:3.5;15:9.0 under the limit 5.0 gives (20, 3.5).
C3_Amended ==
    /\ HistoryRowRead =>
          LET pairs == PairsOf(LastRow.history)
              K     == Within(pairs, EffectiveLimit(LastRow))
          IN  K # {} => Cell(LastRow) = IF Last(K) = Len(pairs)
                                        THEN <<LastRow.objective, LastRow.time>>
                                        ELSE pairs[Last(K)]
    /\ trueValue(FormatHistory(SampleHistory), [m |-> 5, e |-> 0])
          = [first |-> <<"2", "0">>, second |-> <<"3", ".", "5">>]

\* a pair in the middle of the history was stored, after a later pair was
\* passed over
C3_Witness ==
    /\ HistoryRowRead
    /\ LET pairs == PairsOf(LastRow.history)
           K     == Within(pairs, EffectiveLimit(LastRow))
       IN  /\ K # {} /\ 1 < Last(K) /\ Last(K) < Len(pairs)
           /\ Cell(LastRow) = pairs[Last(K)]
           /\ Cell(LastRow) # <<LastRow.objective, LastRow.time>>
           /\ pairs[1] # pairs[Last(K)]

\* C4 as stated: when the most recent history pair is within the effective
\* limit, the row's cell holds that pair.
C4_Original ==
    HistoryRowRead =>
        LET pairs == PairsOf(LastRow.history)
        IN  Len(pairs) \in Within(pairs, EffectiveLimit(LastRow))
              => Cell(LastRow) = pairs[Len(pairs)]

\* C4 amended: when the most recent history pair is within the effective
\* limit, the row's cell holds the value and time of the row's own columns
\* (the history pair is not put in their place).
C4_Amended ==
    HistoryRowRead =>
        LET pairs == PairsOf(LastRow.history)
        IN  Len(pairs) \in Within(pairs, EffectiveLimit(LastRow))
              => Cell(LastRow) = <<LastRow.objective, LastRow.time>>

\* the most recent pair is within the limit and differs from the row's columns
C4_Witness ==
    /\ HistoryRowRead
    /\ LET pairs == PairsOf(LastRow.history)
       IN  /\ Len(pairs) \in Within(pairs, EffectiveLimit(LastRow))
           /\ pairs[Len(pairs)] # <<LastRow.objective, LastRow.time>>
           /\ Cell(LastRow) = <<LastRow.objective, LastRow.time>>

\* C5: a row with a non-empty history none of whose pairs is within the
\* effective limit is stored with value "0" and time "0" in place of the
\* value and time of its own columns.
C5_NoPairWithin ==
    HistoryRowRead =>
        (Within(PairsOf(LastRow.history), EffectiveLimit(LastRow)) = {}
           => Cell(LastRow) = << <<"0">>, <<"0">> >>)

\* a history of several pairs, all too late, was replaced by ("0", "0")
C5_Witness ==
    /\ HistoryRowRead
    /\ Within(PairsOf(LastRow.history), EffectiveLimit(LastRow)) = {}
    /\ Len(PairsOf(LastRow.history)) > 1
    /\ Cell(LastRow) = << <<"0">>, <<"0">> >>
    /\ LastRow.objective # <<"0">>

-----------------------------------------------------------------------------
(* Claims C6 to C9: the Results Table, the registries and the counters     *)
(* after the rows of the log.                                              *)

Range(f) == {f[x] : x \in DOMAIN f}

\* a line of an inclusion list without its blanks and its carriage return
Strip(line) == SelectSeq(line, LAMBDA c : c \notin {" ", "\r"})

\* the names an inclusion list gives, in the order of its lines
ListNames(file) ==
    LET names == [k \in 1..Len(file) |-> Strip(file[k])]
    IN  SelectSeq(names, LAMBDA n : n # <<>> /\ n[1] # "#")

InstancesListed  == TB.instance_set = "some_instances"
AlgorithmsListed == TB.algorithm_set = "some_algorithms"

SkippedForInstance(row) ==
    InstancesListed /\ row.instance \notin Range(ListNames(instance_names_file))

SkippedForAlgorithm(row) ==
    /\ ~SkippedForInstance(row)
    /\ AlgorithmsListed
    /\ row.algorithm \notin Range(ListNames(algorithm_names_file))

Stored(row) == ~SkippedForInstance(row) /\ ~SkippedForAlgorithm(row)

\* the positions of the rows of the log that were stored under a key
StoredAt(sn, in, an) ==
    {k \in 1..Len(log) : /\ Stored(log[k])
                         /\ log[k].seed = sn /\ log[k].instance = in
                         /\ log[k].algorithm = an}

\* the (value, time) resolved from a row
Resolved(row) == LET P == ResolveRow(TB, row) IN <<P.Value, P.Time>>

HasCell(s, i, a) ==
    /\ s < Len(TB.resultsdata_str)
    /\ i < Len(TB.resultsdata_str[s + 1])
    /\ a < Len(TB.resultsdata_str[s + 1][i + 1])

CellAt(s, i, a) == <<TB.resultsdata_str[s + 1][i + 1][a + 1], TB.resultstime[s + 1][i + 1][a + 1]>>

\* C6: after any sequence of rows, the cell of each (seed, instance,
\* algorithm) key holds the value and time resolved from the last non-skipped
\* row with that key, and a cell no stored row names is empty: an earlier row
\* of the key is overwritten and a row changes no cell but its own.
C6_LastRowWins ==
    \A sn \in DOMAIN TB.Seed_names, in \in DOMAIN TB.Inst_names, an \in DOMAIN TB.Algo_names :
        LET s == TB.Seed_names[sn]
            i == TB.Inst_names[in]
            a == TB.Algo_names[an]
            K == StoredAt(sn, in, an)
        IN  /\ K # {} => HasCell(s, i, a) /\ CellAt(s, i, a) = Resolved(log[Last(K)])
            /\ K = {} /\ HasCell(s, i, a) => CellAt(s, i, a) = <<<<>>, <<>>>>

\* three rows read: the first and the last share a key and resolve to
\* different cells, the one between them has another key
C6_Witness ==
    /\ Len(log) = 3
    /\ Stored(log[1]) /\ Stored(log[2]) /\ Stored(log[3])
    /\ log[1].seed = log[3].seed /\ log[1].instance = log[3].instance
    /\ log[1].algorithm = log[3].algorithm
    /\ log[2].algorithm # log[1].algorithm
    /\ Resolved(log[1]) # Resolved(log[3])
    /\ Cell(log[3]) = Resolved(log[3])
    /\ Cell(log[2]) = Resolved(log[2])

\* the position of the first occurrence of x in names
First(names, x) ==
    CHOOSE k \in 1..Len(names) : names[k] = x /\ \A j \in 1..(k - 1) : names[j] # x

\* each name of a sequence numbered by the count of the distinct names before
\* its first occurrence
OrderOf(names) ==
    [x \in Range(names) |-> Cardinality({names[j] : j \in 1..(First(names, x) - 1)})]

InstancesSeen ==
    IF InstancesListed THEN ListNames(instance_names_file)
    ELSE [k \in 1..Len(log) |-> log[k].instance]

AlgorithmsSeen ==
    IF AlgorithmsListed THEN ListNames(algorithm_names_file)
    ELSE LET rows == SelectSeq(log, LAMBDA r : ~SkippedForInstance(r))
         IN  [k \in 1..Len(rows) |-> rows[k].algorithm]

SeedsSeen ==
    LET rows == SelectSeq(log, Stored) IN [k \in 1..Len(rows) |-> rows[k].seed]

Dense(reg) == Range(reg) = 0..(Cardinality(DOMAIN reg) - 1)

RegistriesDense ==
    Dense(TB.Inst_names) /\ Dense(TB.Algo_names) /\ Dense(TB.Seed_names)

RegistriesInOrder ==
    /\ pc # "read_selected_instances" => TB.Inst_names = OrderOf(InstancesSeen)
    /\ pc \notin {"read_selected_instances", "read_selected_algorithms"}
          => TB.Algo_names = OrderOf(AlgorithmsSeen)
    /\ TB.Seed_names = OrderOf(SeedsSeen)

Kept(reg, regAfter) ==
    \A x \in DOMAIN reg : x \in DOMAIN regAfter /\ regAfter[x] = reg[x]

RegistriesStable ==
    /\ Kept(TB.Inst_names, TB'.Inst_names)
    /\ Kept(TB.Algo_names, TB'.Algo_names)
    /\ Kept(TB.Seed_names, TB'.Seed_names)

\* C7: at every point of ingestion each registry maps its names one-to-one
\* onto 0..n-1 without gaps, in first-seen order (in the order of the
\* inclusion list when one is supplied), and no step changes the index of a
\* name already registered.
C7_Registries ==
    /\ [](RegistriesDense /\ RegistriesInOrder)
    /\ [][RegistriesStable]_vars

\* the list i2, #i1, blank, i2, " i1" CR has been read and rows have
\* registered two algorithms and two seeds in the order they came
C7_Witness ==
    /\ pc = "getline"
    /\ InstancesListed /\ ~AlgorithmsListed
    /\ Len(instance_names_file) = 5
    /\ TB.Inst_names[Inst2] = 0 /\ TB.Inst_names[Inst1] = 1
    /\ Len(log) = 3
    /\ log[1].algorithm = Algo2 /\ log[2].algorithm = Algo2 /\ log[3].algorithm = Algo1
    /\ TB.Algo_names[Algo2] = 0 /\ TB.Algo_names[Algo1] = 1
    /\ log[1].seed = Seed2 /\ log[3].seed = Seed1
    /\ TB.Seed_names[Seed2] = 0 /\ TB.Seed_names[Seed1] = 1

Count(P(_)) == Cardinality({k \in 1..Len(log) : P(log[k])})

\* a step that reads a row the inclusion lists reject
SkipFrame ==
    (pc = "getline" /\ Len(log') = Len(log) + 1 /\ ~Stored(log'[Len(log')])) =>
        /\ TB'.resultsdata_str = TB.resultsdata_str
        /\ TB'.resultstime = TB.resultstime
        /\ TB'.Seed_names = TB.Seed_names
        /\ IF SkippedForInstance(log'[Len(log')])
           THEN TB'.skipped_inst = TB.skipped_inst + 1 /\ TB'.skipped_alg = TB.skipped_alg
           ELSE TB'.skipped_alg = TB.skipped_alg + 1 /\ TB'.skipped_inst = TB.skipped_inst

RowsAccounted ==
    pc \in {"getline", "END OF INPUT", "exit"} =>
        /\ TB.nLine = Len(log)
        /\ TB.skipped_inst = Count(SkippedForInstance)
        /\ TB.skipped_alg = Count(SkippedForAlgorithm)
        /\ TB.nLine = Count(Stored) + TB.skipped_inst + TB.skipped_alg

\* C8: with an inclusion list active, a row naming an unlisted instance or an
\* unlisted algorithm leaves the Results Table and the seed registry as they
\* were and adds one to exactly one skip counter (the instance counter when
\* the instance is unlisted, else the algorithm counter), so rows read = rows
\* stored + rows skipped for instance + rows skipped for algorithm.
C8_SkippedRows == [][SkipFrame]_vars /\ []RowsAccounted

\* one row stored, one skipped for its instance, one for its algorithm
C8_Witness ==
    /\ Len(log) = 3
    /\ Stored(log[1]) /\ SkippedForInstance(log[2]) /\ SkippedForAlgorithm(log[3])
    /\ TB.nLine = 3 /\ TB.skipped_inst = 1 /\ TB.skipped_alg = 1
    /\ Cell(log[1]) = Resolved(log[1])

\* a listed name that no row of the log carries
MissingInstance ==
    InstancesListed /\ \E n \in Range(ListNames(instance_names_file)) :
                           \A k \in 1..Len(log) : log[k].instance # n

MissingAlgorithm ==
    AlgorithmsListed /\ \E n \in Range(ListNames(algorithm_names_file)) :
                            \A k \in 1..Len(log) : log[k].algorithm # n

\* C9: when a listed instance or algorithm is named by no row of the log,
\* read_results_file does not return: the run reaches the exit, only from the
\* end of the log with every row read, and nothing runs after the exit.
C9_MissingNameIsFatal ==
    /\ [](pc = "END OF INPUT" => ~MissingInstance /\ ~MissingAlgorithm)
    /\ [][pc' = "exit" => pc = "getline" /\ log' = log]_vars
    /\ [][pc # "exit"]_vars

\* the exit after rows that name every listed instance and not the listed
\* algorithm
C9_Witness ==
    /\ pc = "exit"
    /\ Len(log) = 3
    /\ ~MissingInstance /\ MissingAlgorithm
    /\ InstancesListed /\ Len(instance_names_file) = 5

-----------------------------------------------------------------------------
(* Claim C10: a log read followed by the same rows again.                  *)

\* the object after the inclusion lists and the rows alone
Ingested(rows) ==
    IngestRows(begin_results_file(
                   read_selected_algorithms(
                       read_selected_instances(
                           InitialTB(TB.instance_set, TB.algorithm_set,
                                     TB.time_limit_scaling, 0),
                           instance_names_file),
                       algorithm_names_file)), rows)

Doubled == Len(log) >= 2 /\ Len(log) % 2 = 0
           /\ \A k \in 1..(Len(log) \div 2) : log[k + Len(log) \div 2] = log[k]

Image(S) == <<S.Inst_names, S.Algo_names, S.Seed_names, S.resultsdata_str, S.resultstime>>

Sizes(S) == <<S.ninstances, S.nalgorithms, S.n_seeds>>

\* C10: after the rows of a log followed by the same rows again, the
\* registries and the Results Table are those of the log read once, and
\* read_results_file returns with the same counts of instances, algorithms
\* and seeds or fails as it does for the log read once.
C10_Idempotent ==
    (Doubled /\ pc \in {"getline", "END OF INPUT", "exit"}) =>
        LET Once == Ingested(SubSeq(log, 1, Len(log) \div 2))
            E    == end_results_file(Once)
        IN  /\ Image(TB) = Image(Once)
            /\ pc = "END OF INPUT" => ~E.failed /\ Sizes(TB) = Sizes(E.S)
            /\ pc = "exit" => E.failed

\* two stored rows of one key with different cells, read twice over
C10_Witness ==
    /\ Doubled /\ Len(log) = 4
    /\ pc = "END OF INPUT"
    /\ Stored(log[1]) /\ Stored(log[2])
    /\ log[1].seed = log[2].seed /\ log[1].instance = log[2].instance
    /\ log[1].algorithm = log[2].algorithm
    /\ Resolved(log[1]) # Resolved(log[2])
    /\ Cell(log[4]) = Resolved(log[2])

-----------------------------------------------------------------------------
(* Claims C11 to C16: the metrics of a complete Results Table, measured     *)
(* against the values of its cells.                                        *)

\* ComputeStatistics has returned; the calls that follow leave TB and ST as
\* they are
Computed == pc = "statistics"

Seeds == 1..TB.n_seeds
Instances == 1..TB.ninstances
Algorithms == 1..TB.nalgorithms

\* the value and the time of a cell as numbers
Value(s, i, h) == stod_double(TB.resultsdata_str[s][i][h])

\* the sum over the seeds of the values of an algorithm on an instance
RECURSIVE TotalUpTo(_, _, _)
TotalUpTo(n, i, h) == IF n = 0 THEN Double(0) ELSE DAdd(TotalUpTo(n - 1, i, h), Value(n, i, h))

Total(i, h) == TotalUpTo(TB.n_seeds, i, h)

\* a count as the metric reports it: a fraction of the instances, or the
\* count itself in absolute mode
Reported(count) ==
    IF TB.absolute_values THEN Double(count) ELSE Fraction(count, TB.ninstances)

\* the instances on which the total of h is the greatest total
FirstEqualOn(h) == {i \in Instances : \A h1 \in Algorithms : ~DLess(Total(i, h), Total(i, h1))}

\* the table of the example: one seed, i1 with 10 and 20, i2 with 30 and 30
ExampleTable ==
    /\ TB.n_seeds = 1 /\ TB.ninstances = 2 /\ TB.nalgorithms = 2
    /\ TB.resultsdata_str[1] = << << <<"1", "0">>, <<"2", "0">> >>,
                                  << <<"3", "0">>, <<"3", "0">> >> >>

FirstStrictOn(h) ==
    {i \in Instances : \A h1 \in Algorithms \ {h} : DLess(Total(i, h1), Total(i, h))}

\* C12: FS(h) <= FE(h) for every algorithm and every table: an instance on
\* which the sum of h strictly exceeds the best of the other algorithms is an
\* instance on which it equals the maximum.
C12_StrictWithinEqual ==
    Computed =>
        \A h \in Algorithms :
            /\ ~DLess(ST.FE[h], ST.FS[h])
            /\ \A i \in Instances :
                  DLess(ST.MaxByAlgButOne_SumBySeeds_mat[i][h], ST.SumBySeeds_mat[i][h])
                      => ST.SumBySeeds_mat[i][h] = ST.MaxByAlg_SumBySeeds_vect[i]
            /\ TB.nalgorithms > 1
                  => ST.FS[h] = Reported(Cardinality(FirstStrictOn(h)))

\* three algorithms: one strictly first on the instance, the others neither
C12_Witness ==
    /\ pc = "statistics" /\ TB.nalgorithms = 3
    /\ \E h \in Algorithms : FirstStrictOn(h) # {} /\ ST.FS[h] = ST.FE[h]
    /\ \E h \in Algorithms : FirstStrictOn(h) = {} /\ FirstEqualOn(h) = {}
    /\ DLess(Total(1, 3), Total(1, 2)) /\ DLess(Total(1, 2), Total(1, 1))

\* a tie for the maximum: counted by FE, not by FS
C12_WitnessTie ==
    /\ pc = "statistics" /\ TB.nalgorithms = 2
    /\ \E h \in Algorithms : DLess(ST.FS[h], ST.FE[h])

\* the algorithms whose value on a seed and an instance is greater than that
\* of h
Above(s, i, h) == {h1 \in Algorithms \ {h} : DLess(Value(s, i, h), Value(s, i, h1))}

RECURSIVE RankSum(_, _)
RankSum(cells, h) ==
    IF cells = {} THEN 0
    ELSE LET c == CHOOSE x \in cells : TRUE
         IN  1 + Cardinality(Above(c[1], c[2], h)) + RankSum(cells \ {c}, h)

\* C13: on a seed and an instance the rank of h is 1 plus the number of other
\* algorithms with a strictly greater value, so that tied algorithms share
\* the least rank, and AR(h) is the sum of the ranks of h divided by
\* n_seeds * ninstances; on the example AR(a1) = 1.5 and AR(a2) = 1.0.
C13_AverageRank ==
    Computed =>
        /\ \A h \in Algorithms :
              ST.AR[h] = Fraction(RankSum(Seeds \X Instances, h), TB.n_seeds * TB.ninstances)
        /\ ExampleTable => ST.AR = <<Fraction(3, 2), Fraction(1, 1)>>

\* the example, where a1 and a2 tie on i2 and both rank first there
C13_Witness ==
    /\ pc = "statistics" /\ ExampleTable
    /\ ST.AR = <<Fraction(3, 2), Fraction(1, 1)>>
    /\ Above(1, 2, 1) = {} /\ Above(1, 2, 2) = {} /\ Above(1, 1, 1) = {2}

\* h has the greatest value on every seed and every instance
BestEverywhere(h) == \A s \in Seeds, i \in Instances : Above(s, i, h) = {}

\* C14: 1 <= AR(h) <= nalgorithms for every algorithm, and an algorithm that
\* is tied for the best on every seed and every instance has AR exactly 1.
C14_RankBounds ==
    Computed =>
        \A h \in Algorithms :
            /\ ~DLess(ST.AR[h], Double(1))
            /\ ~DLess(Double(TB.nalgorithms), ST.AR[h])
            /\ BestEverywhere(h) => ST.AR[h] = Double(1)

\* two seeds, three algorithms all tied for the best, and a table where an
\* algorithm is last everywhere and has AR = nalgorithms
C14_Witness ==
    /\ pc = "statistics" /\ TB.n_seeds = 2 /\ TB.nalgorithms = 3
    /\ \A h \in Algorithms : BestEverywhere(h) /\ ST.AR[h] = Double(1)

C14_WitnessLast ==
    /\ pc = "statistics" /\ TB.nalgorithms = 2
    /\ \E h \in Algorithms : ST.AR[h] = Double(TB.nalgorithms)

\* the best value of h on an instance over the seeds and its time, as numbers
Best(i, h) == stod_double(ST.MaxBySeeds_mat[i][h])
TimeToBest(i, h) == stod_double(ST.TimeMaxBySeeds_mat[i][h])

\* the algorithms that achieve the global best of an instance
Achievers(i) == {h \in Algorithms : \A h1 \in Algorithms : ~DLess(Best(i, h), Best(i, h1))}

\* the instances on which h achieves the global best, and those on which it
\* does so at the earliest time among the algorithms that achieve it
BestAchievedOn(h) == {i \in Instances : h \in Achievers(i)}
EarliestBestAchievedOn(h) ==
    {i \in BestAchievedOn(h) :
        \A h1 \in Achievers(i) : ~DLess(TimeToBest(i, h1), TimeToBest(i, h))}

\* C15: EBA counts an instance for h exactly when the best of h over the
\* seeds equals the global best of the instance and the time of h to its best
\* equals the time of the global best, the earliest among the algorithms that
\* achieve it; hence EBA(h) <= BA(h), and every instance is counted for at
\* least one algorithm.
C15_EarliestBest ==
    Computed =>
        /\ \A h \in Algorithms :
              /\ ST.EBA[h] = Reported(Cardinality(EarliestBestAchievedOn(h)))
              /\ ST.BA[h] = Reported(Cardinality(BestAchievedOn(h)))
              /\ ~DLess(ST.BA[h], ST.EBA[h])
        /\ \A i \in Instances :
              /\ \E h \in Algorithms :
                    /\ gte(ST.MaxBySeeds_mat[i][h], ST.MaxByAlg_MaxBySeeds_vect[i]) = 0
                    /\ gte(ST.TimeMaxBySeeds_mat[i][h], ST.TimeMaxByAlg_MaxBySeeds_vect[i]) = 0
              /\ \A h \in Achievers(i) :
                    ~DLess(TimeToBest(i, h), stod_double(ST.TimeMaxByAlg_MaxBySeeds_vect[i]))

\* two algorithms achieve the best of an instance, the second one earlier:
\* BA counts both and EBA the second alone
C15_Witness ==
    /\ pc = "statistics" /\ TB.nalgorithms = 2
    /\ \E i \in Instances :
          /\ Achievers(i) = {1, 2}
          /\ DLess(TimeToBest(i, 2), TimeToBest(i, 1))
          /\ i \in EarliestBestAchievedOn(2) /\ i \notin EarliestBestAchievedOn(1)
    /\ DLess(ST.EBA[1], ST.BA[1])

\* the least value of h on an instance over the seeds, and the global best
\* of the instance: the greatest value over the seeds and the algorithms
Least(i, h) ==
    LET s0 == CHOOSE s \in Seeds : \A s1 \in Seeds : ~DLess(Value(s1, i, h), Value(s, i, h))
    IN  Value(s0, i, h)

GlobalBest(i) ==
    LET c == CHOOSE c \in Seeds \X Algorithms :
                 \A d \in Seeds \X Algorithms : ~DLess(Value(c[1], i, c[2]), Value(d[1], i, d[2]))
    IN  Value(c[1], i, c[2])

\* the instances whose global best is not zero
NonZero == {i \in Instances : GlobalBest(i) # Double(0)}

RECURSIVE WorstRatios(_, _)
WorstRatios(insts, h) ==
    IF insts = {} THEN Double(0)
    ELSE LET i == CHOOSE x \in insts : TRUE
         IN  DAdd(DDiv(Least(i, h), GlobalBest(i)), WorstRatios(insts \ {i}, h))

-----------------------------------------------------------------------------
(* Claims C17 and C18: the table writetable writes.                         *)

Written == args.call = "writetable" /\ pc = "END STATISTICS"

\* the file of names that translates every algorithm of the log
CompleteNames ==
    [open |-> TRUE, lines |-> << <<"a", "1", ",", "A">>, <<"a", "2", ",", "B">>,
                                 <<"a", "3", ",", "C">> >>]

\* a file of names writetable reads to its end: it opens, every line has a
\* comma and no key comes twice
KeyOf(line) == Substr(line, 0, Find(line, ","))
Readable(file) ==
    /\ file.open
    /\ \A k \in 1..Len(file.lines) : Contains(file.lines[k], ",")
    /\ \A j, k \in 1..Len(file.lines) :
          j # k => KeyOf(file.lines[j]) # KeyOf(file.lines[k])

\* the keys of the lines of a file of names
KeysOf(file) == {KeyOf(file.lines[k]) : k \in 1..Len(file.lines)}

\* the rows of the table after its header, and the algorithm a row is
\* written for: the one whose name translates to the first field of the row
Rows == Tail(out.lines)
AlgorithmOf(row) ==
    CHOOSE h \in Algorithms :
        \E k \in 1..Len(args.file.lines) :
            /\ SubstrFrom(args.file.lines[k], Find(args.file.lines[k], ",") + 1) = row[1]
            /\ TB.Algo_names[Substr(args.file.lines[k], 0, Find(args.file.lines[k], ","))] = h - 1

\* the order of C17 between the algorithms a and b, a before b
Precedes(a, b) ==
    \/ DLess(ST.FE[b], ST.FE[a])
    \/ ST.FE[a] = ST.FE[b] /\ DLess(ST.MD[a], ST.MD[b])
    \/ ST.FE[a] = ST.FE[b] /\ ST.MD[a] = ST.MD[b] /\ a > b

\* C17: writetable writes each algorithm exactly once, by descending FE,
\* among equal FE by descending -MD (smaller MD first), among equal FE and
\* equal MD by descending original registration index.
C17_Original ==
    (Written /\ args.file = CompleteNames) =>
        /\ Len(Rows) = TB.nalgorithms
        /\ \A h \in Algorithms :
              Cardinality({k \in 1..Len(Rows) : AlgorithmOf(Rows[k]) = h}) = 1
        /\ \A j, k \in 1..Len(Rows) :
              j < k => Precedes(AlgorithmOf(Rows[j]), AlgorithmOf(Rows[k]))

\* C18: when the file of names has no entry for an algorithm of the run,
\* writetable fails with a fatal error and writes no row for that algorithm.
C18_Original ==
    (/\ args.call = "writetable"
     /\ Readable(args.file)
     /\ \E key \in DOMAIN TB.Algo_names : key \notin KeysOf(args.file))
        => pc = "exit" /\ out.lines = <<>>

-----------------------------------------------------------------------------
(* Claim C19: the instances extract keeps.                                  *)

Extracted == args.call = "extract" /\ pc = "return"

\* the algorithms whose value on every seed equals the best of the instance
TiedOnEverySeed(i) ==
    {h \in Algorithms : \A s \in Seeds : Value(s, i, h) = GlobalBest(i)}

\* the count of an instance is strictly greater than the threshold: the
\* level, or half the number of algorithms when no level is given
Easy(i, level) ==
    IF level < 0 THEN 2 * Cardinality(TiedOnEverySeed(i)) > TB.nalgorithms
    ELSE Cardinality(TiedOnEverySeed(i)) > level

InstanceNames == DOMAIN TB.Inst_names
EasyNames == {name \in InstanceNames : Easy(TB.Inst_names[name] + 1, args.level)}

\* C19: extract rejects an instance exactly when the number of algorithms
\* whose value on every seed equals the best of the instance is strictly
\* greater than the threshold, and writes every other instance; rejected +
\* accepted is the number of registered instances. Three algorithms that tie
\* on every seed are rejected at the default threshold 1.5; an instance where
\* one algorithm alone achieves the best is accepted.
C19_Extract ==
    Extracted =>
        /\ Range(out.lines) = InstanceNames \ EasyNames
        /\ Len(out.lines) = Cardinality(Range(out.lines))
        /\ out.rejected = Cardinality(EasyNames)
        /\ out.accepted = Len(out.lines)
        /\ out.rejected + out.accepted = Cardinality(InstanceNames)
        /\ (TB.nalgorithms = 3 /\ args.level = -1) =>
              \A inst \in InstanceNames :
                  /\ Cardinality(TiedOnEverySeed(TB.Inst_names[inst] + 1)) = 3
                        => inst \notin Range(out.lines)
                  /\ Cardinality(TiedOnEverySeed(TB.Inst_names[inst] + 1)) = 1
                        => inst \in Range(out.lines)

\* three algorithms tie on the two seeds of the instance: rejected at 1.5
C19_Witness ==
    /\ Extracted /\ args.level = -1
    /\ TB.nalgorithms = 3 /\ TB.n_seeds = 2
    /\ TiedOnEverySeed(1) = {1, 2, 3}
    /\ out.rejected = 1 /\ out.lines = <<>>

\* one algorithm alone achieves the best of the instance: accepted
C19_WitnessAccepted ==
    /\ Extracted /\ args.level = -1
    /\ TB.nalgorithms = 3 /\ TB.n_seeds = 2
    /\ Cardinality(TiedOnEverySeed(1)) = 1
    /\ out.accepted = 1 /\ Len(out.lines) = 1

-----------------------------------------------------------------------------
(* Claim C20: the instances extractChamp lists for an algorithm.            *)

Listed == args.call = "extractChamp" /\ pc = "END STATISTICS"

\* the algorithm of option -r, and the metric of option -m for it
Champion == TB.Algo_names[args.name] + 1
MetricOf(cMetric) ==
    CASE cMetric = 0 -> ST.FE[Champion]
      [] cMetric = 1 -> ST.FS[Champion]
      [] cMetric = 2 -> ST.BA[Champion]
      [] cMetric = 3 -> ST.EBA[Champion]

\* the instances that count for the metric of the champion
CriterionOn(cMetric) ==
    CASE cMetric = 0 -> FirstEqualOn(Champion)
      [] cMetric = 1 -> FirstStrictOn(Champion)
      [] cMetric = 2 -> BestAchievedOn(Champion)
      [] cMetric = 3 -> EarliestBestAchievedOn(Champion)

\* C20: for a registered algorithm h and a metric index in 0..3, extractChamp
\* writes exactly the names of the instances on which h meets the criterion
\* of FE, FS, BA or EBA, each name once, so that the number of names is the
\* raw count of the metric for h. (With a single algorithm the criterion of
\* FS compares with a value read beyond the row; the names are then compared
\* with the metric alone.)
C20_Champion ==
    Listed =>
        /\ (TB.nalgorithms > 1 \/ args.cMetric # 1) =>
              Range(out.lines) =
                  {inst \in InstanceNames : TB.Inst_names[inst] + 1 \in CriterionOn(args.cMetric)}
        /\ Len(out.lines) = Cardinality(Range(out.lines))
        /\ Range(out.lines) \subseteq InstanceNames
        /\ Reported(Len(out.lines)) = MetricOf(args.cMetric)
        /\ out.accepted = Len(out.lines)
        /\ out.accepted + out.rejected = Cardinality(InstanceNames)

\* absolute mode, metric FS: of two instances one is listed for the champion,
\* the other, a tie, is not, and FS is 1
C20_Witness ==
    /\ Listed /\ TB.absolute_values /\ args.cMetric = 1
    /\ TB.ninstances = 2 /\ TB.nalgorithms = 2
    /\ Len(out.lines) = 1 /\ out.rejected = 1
    /\ ST.FS[Champion] = Double(1) /\ ST.FE[Champion] = Double(2)

-----------------------------------------------------------------------------
(* The time scaling of the command line: claim C21.                        *)

\* option -s is given
Supplied == argv.cl.s # <<>>

\* a factor that is not in (0, 1]
OutOfRange(x) == DecCompare(x, Zero) <= 0 \/ DecCompare(x, One) > 0

\* the run has gone past the tests of the options
Running == pc \notin {"main", "exit"} \/ log # <<>>

\* C21: a scaling factor given with -s that is zero, negative or greater than
\* 1 ends the run at the tests of the options, before the parameter file and
\* any data is read, and no run uses a factor other than the one supplied.
C21_Original ==
    /\ (Supplied /\ OutOfRange(atof(argv.cl.s))) => ~Running
    /\ (Supplied /\ Running) => TB.time_limit_scaling = atof(argv.cl.s)

-----------------------------------------------------------------------------
(* The best of the seeds and its time: claim C22.                          *)

TimeOf(s, i, h) == stod_double(TB.resultstime[s][i][h])

\* the seeds whose value on instance i for algorithm h is the greatest
BestSeeds(i, h) ==
    {s \in Seeds : \A s1 \in Seeds : ~DLess(Value(s, i, h), Value(s1, i, h))}

\* C22: MaxBySeeds[i][h] is the greatest of the values of the seeds, and the
\* time paired with it is the least of the times of the seeds that have that
\* value, whatever the order of the seeds.
C22_BestOfSeeds ==
    Computed =>
        \A i \in Instances, h \in Algorithms :
            /\ \E s \in BestSeeds(i, h) :
                   Value(s, i, h) = Best(i, h) /\ TimeOf(s, i, h) = TimeToBest(i, h)
            /\ \A s \in BestSeeds(i, h) : ~DLess(TimeOf(s, i, h), TimeToBest(i, h))

\* two seeds with the same value, the second one earlier: its time is taken
C22_Witness ==
    /\ Computed
    /\ TB.n_seeds = 2
    /\ \E i \in Instances, h \in Algorithms :
         /\ Value(1, i, h) = Value(2, i, h)
         /\ DLess(TimeOf(2, i, h), TimeOf(1, i, h))
         /\ TimeToBest(i, h) = TimeOf(2, i, h)

\* two seeds of different values, the first one greater and later
C22_WitnessGreater ==
    /\ Computed
    /\ TB.n_seeds = 2
    /\ \E i \in Instances, h \in Algorithms :
         /\ DLess(Value(2, i, h), Value(1, i, h))
         /\ DLess(TimeOf(2, i, h), TimeOf(1, i, h))
         /\ TimeToBest(i, h) = TimeOf(1, i, h)

-----------------------------------------------------------------------------
(* The best of the other algorithms: claim C23.                            *)

Others(h) == Algorithms \ {h}

\* the greatest of the sums over the seeds of the algorithms other than h
BestTotalOfOthers(i, h) ==
    LET h0 == CHOOSE h1 \in Others(h) :
                  \A h2 \in Others(h) : ~DLess(Total(i, h1), Total(i, h2))
    IN  Total(i, h0)

\* the greatest of the bests over the seeds of the algorithms other than h
BestOfOthers(i, h) ==
    LET h0 == CHOOSE h1 \in Others(h) :
                  \A h2 \in Others(h) : ~DLess(Best(i, h1), Best(i, h2))
    IN  Best(i, h0)

\* C23: for every instance i and every algorithm h that is not alone, the
\* first and the last included, MaxByAlgButOne gives the greatest element of
\* row i over the algorithms other than h, for the sums over the seeds and
\* for the bests over the seeds.
C23_ButOne ==
    Computed =>
        \A i \in Instances, h \in Algorithms :
            Others(h) # {} =>
                /\ ST.MaxByAlgButOne_SumBySeeds_mat[i][h] = BestTotalOfOthers(i, h)
                /\ stod_double(ST.MaxByAlgButOne_MaxBySeeds_mat[i][h]) = BestOfOthers(i, h)
                /\ \E h1 \in Others(h) :
                       ST.MaxByAlgButOne_MaxBySeeds_mat[i][h] = ST.MaxBySeeds_mat[i][h1]

\* three algorithms of three different sums, the first one the greatest: the
\* best of the others differs for the first, the middle and the last
C23_Witness ==
    /\ Computed
    /\ TB.nalgorithms = 3
    /\ \E i \in Instances :
         /\ DLess(Total(i, 2), Total(i, 3)) /\ DLess(Total(i, 3), Total(i, 1))
         /\ ST.MaxByAlgButOne_SumBySeeds_mat[i][1] = Total(i, 3)
         /\ ST.MaxByAlgButOne_SumBySeeds_mat[i][2] = Total(i, 1)
         /\ ST.MaxByAlgButOne_SumBySeeds_mat[i][3] = Total(i, 1)

\* two algorithms, the second one below the first on the best of the seeds
C23_WitnessTwo ==
    /\ Computed
    /\ TB.nalgorithms = 2
    /\ \E i \in Instances :
         /\ DLess(Best(i, 2), Best(i, 1))
         /\ ST.MaxByAlgButOne_MaxBySeeds_mat[i][1] = ST.MaxBySeeds_mat[i][2]
         /\ ST.MaxByAlgButOne_MaxBySeeds_mat[i][2] = ST.MaxBySeeds_mat[i][1]

-----------------------------------------------------------------------------
(* The three deviations: claim C30.                                        *)

\* the instances whose global best is above zero
Positive == {i \in Instances : DLess(Double(0), GlobalBest(i))}

\* the sum over a set of instances of the best of h over the global best
RECURSIVE BestRatios(_, _)
BestRatios(insts, h) ==
    IF insts = {} THEN Double(0)
    ELSE LET i == CHOOSE x \in insts : TRUE
         IN  DAdd(DDiv(Best(i, h), GlobalBest(i)), BestRatios(insts \ {i}, h))

C30_WitnessZero ==
    /\ Computed
    /\ TB.ninstances = 2
    /\ Cardinality(Positive) = 1
    /\ \A h \in Algorithms :
         ST.BD[h] = DDiv(Double(1), Double(2)) /\ ST.WD[h] = DDiv(Double(1), Double(2))

-----------------------------------------------------------------------------
(* The inclusion lists: claim C24.                                         *)

\* the inclusion lists have been read
ListsRead == pc \in {"read_results_file", "END OF INPUT", "statistics", "END STATISTICS"}

\* C24: an inclusion list registers exactly the names on its lines that are
\* not blank and do not start with '#', in the order of the file, without
\* the carriage return at their end, a repeated name keeping its first
\* index; blank lines, those of a file with CRLF line ends too, and '#'
\* lines register nothing and take no index.
C24_Original ==
    ListsRead =>
        /\ InstancesListed =>
               /\ TB.Inst_names = OrderOf(ListNames(instance_names_file))
               /\ TB.ninstances = Cardinality(Range(ListNames(instance_names_file)))
        /\ AlgorithmsListed =>
               /\ TB.Algo_names = OrderOf(ListNames(algorithm_names_file))
               /\ TB.nalgorithms = Cardinality(Range(ListNames(algorithm_names_file)))

-----------------------------------------------------------------------------
(* The cells ComputeStatistics and extract read: claim C26.                *)

\* the indices in_mat[i][h1] that MaxByAlgButOne reads in a row
ButOneReads == {IF h > 0 THEN 0 ELSE 1 : h \in 0..(TB.nalgorithms - 1)}

\* C26: after an ingestion that ended without error, every cell (s, i, h)
\* with s < n_seeds, i < ninstances and h < nalgorithms exists in the Results
\* Table and was written by a row of the log, and the indices MaxByAlgButOne
\* reads in a row are below nalgorithms.
C26_Original ==
    pc = "END OF INPUT" =>
        /\ \A s \in 0..(TB.n_seeds - 1), i \in 0..(TB.ninstances - 1),
              a \in 0..(TB.nalgorithms - 1) :
               HasCell(s, i, a) /\ CellAt(s, i, a)[1] # <<>>
        /\ \A h1 \in ButOneReads : h1 < TB.nalgorithms

-----------------------------------------------------------------------------
(* The stored time and the effective limit: claim C27.                     *)

\* the times of the pairs of a history never go down
NonDecreasing(pairs) ==
    \A j, k \in 1..Len(pairs) :
        j < k => DecCompare(stod(pairs[j][2]), stod(pairs[k][2])) <= 0

\* the time stored for the row does not exceed its effective limit
StoredWithinLimit == DecCompare(stod(Cell(LastRow)[2]), EffectiveLimit(LastRow)) <= 0

\* C27 as stated: for a row with a non-empty history of non-decreasing times
\* the stored time never exceeds the effective time limit, whatever the
\* row's own columns hold.
C27_Original ==
    (HistoryRowRead /\ NonDecreasing(PairsOf(LastRow.history))) => StoredWithinLimit

\* C27 amended: for a row with a non-empty history of non-decreasing times
\* whose most recent pair exceeds the effective time limit, the stored time
\* never exceeds that limit, whatever the row's own columns hold; when the
\* most recent pair is within the limit, the stored time is the time of the
\* row's own columns.
C27_Amended ==
    (HistoryRowRead /\ NonDecreasing(PairsOf(LastRow.history))) =>
        LET pairs == PairsOf(LastRow.history)
        IN  IF Len(pairs) \in Within(pairs, EffectiveLimit(LastRow))
            THEN Cell(LastRow)[2] = LastRow.time
            ELSE StoredWithinLimit

\* the most recent pair is too late, an earlier one is not, and the row's
\* own time exceeds the limit: the stored time is that of the earlier pair
C27_Witness ==
    /\ HistoryRowRead
    /\ LET pairs == PairsOf(LastRow.history)
           K     == Within(pairs, EffectiveLimit(LastRow))
       IN  /\ NonDecreasing(pairs)
           /\ K # {} /\ Len(pairs) \notin K
           /\ DecCompare(stod(LastRow.time), EffectiveLimit(LastRow)) > 0
           /\ Cell(LastRow)[2] = pairs[Last(K)][2]
           /\ StoredWithinLimit

-----------------------------------------------------------------------------
(* The comparator on operands with a minus sign: claim C28.                *)

\* the number a decimal string with an optional leading minus sign denotes
SignedValue(s) ==
    IF Head(s) = "-" THEN DNeg(stod_double(Tail(s))) ELSE stod_double(s)

\* the order of the numbers two such strings denote
SignedCompare(a, b) ==
    IF DLess(SignedValue(a), SignedValue(b)) THEN -1
    ELSE IF DLess(SignedValue(b), SignedValue(a)) THEN 1 ELSE 0

\* C28: on decimal strings that may carry a leading minus sign gte follows
\* the order of the numbers: of two negative operands the one closer to zero
\* is the greater, and a negative operand is less than every operand that is
\* not negative.
C28_Original == cpc = "compared" => cmp = SignedCompare(u, v)

-----------------------------------------------------------------------------
(* The order of the steps of a run: claim C25.                             *)

\* the steps of main in their order: each pair is a step and the step that
\* may follow it
StepOrder ==
    {<<"main", "read_parameters">>,
     <<"read_parameters", "Set_instances_set">>,
     <<"read_parameters", "read_selected_instances">>,
     <<"Set_instances_set", "read_selected_instances">>,
     <<"read_selected_instances", "read_selected_algorithms">>,
     <<"read_selected_algorithms", "read_results_file">>,
     <<"read_results_file", "END OF INPUT">>,
     <<"END OF INPUT", "return">>,
     <<"END OF INPUT", "statistics">>,
     <<"statistics", "END STATISTICS">>}

\* the steps that can end in a fatal error
Fallible == {"main", "read_parameters", "read_results_file", "statistics"}

\* the ends of a run: the exit of a fatal error, the end of the process
\* inside ComputeStatistics, and the two returns of main
Ended == {"exit", "crash", "return", "END STATISTICS"}

\* C25: a run goes through the tests of the options, the parameter file, the
\* inclusion lists and the whole ingestion with the check that every listed
\* name was used, in this order, and then either through the extraction of
\* the difficult instances or through the aggregation followed by exactly
\* one of the extraction for the champion and the writing of the table; no
\* step runs after a fatal error; and the table is written only after the
\* ingestion and the aggregation have ended without error.
C25_Order ==
    /\ [][\/ <<pc, pc'>> \in StepOrder
          \/ pc \in Fallible /\ pc' = "exit"
          \/ pc = "END OF INPUT" /\ pc' = "crash"]_vars
    /\ [][pc \notin Ended]_vars
    /\ [][pc' = "END OF INPUT" => ~MissingInstance' /\ ~MissingAlgorithm']_vars
    /\ [][pc = "END OF INPUT" =>
             IF Locals.difficult THEN pc' = "return" /\ args'.call = "extract"
             ELSE pc' \in {"statistics", "crash"} /\ out' = NoOutput]_vars
    /\ [][pc = "statistics" =>
             /\ ST # <<>>
             /\ args'.call = IF Locals.rInstances THEN "extractChamp" ELSE "writetable"]_vars
    /\ [](out # NoOutput => pc \in {"return", "END STATISTICS", "exit"} /\ log # <<>>)
    /\ [](args.call = "writetable" /\ out.lines # <<>> => pc = "END STATISTICS" /\ ST # <<>>)

\* a run with an instance list that has written the table
C25_Witness ==
    /\ pc = "END STATISTICS"
    /\ InstancesListed
    /\ args.call = "writetable"
    /\ Len(out.lines) > 1

\* a run that has extracted the difficult instances
C25_WitnessExtract ==
    /\ pc = "return"
    /\ args.call = "extract"
    /\ AlgorithmsListed

\* a run that has extracted the instances for the champion
C25_WitnessChamp ==
    /\ pc = "END STATISTICS"
    /\ args.call = "extractChamp"

-----------------------------------------------------------------------------
(* The instance list under option -d: claim C29.                           *)

\* the words of a parameter file after its instance selection
AfterInstances(file) ==
    SubSeq(file.words, IF Word(file.words, 2) = "all_instances" THEN 3 ELSE 4,
           Len(file.words))

\* two parameter files that differ in nothing but their instance selection
SameButInstances(f1, f2) ==
    /\ f1.open /\ f2.open
    /\ Word(f1.words, 1) = Word(f2.words, 1)
    /\ Word(f1.words, 2) \in {"all_instances", "some_instances"}
    /\ Word(f2.words, 2) \in {"all_instances", "some_instances"}
    /\ AfterInstances(f1) = AfterInstances(f2)

\* the object TB at the end of the input of a run with option -d on a
\* parameter file and a log, and whether the run has met a fatal error
DifficultRun(file, rows) ==
    LET P  == read_parameters([InitialTB("", "", Zero, 0)
                                 EXCEPT !.time_limit_scaling = Locals.scaling], file)
        S1 == Set_instances_set(P.S)
        S2 == read_selected_instances(S1, ListFile(P.instance_names_file))
        S3 == read_selected_algorithms(S2, ListFile(P.algorithm_names_file))
        E  == read_results_file(S3, rows)
    IN  [TB |-> [E.S EXCEPT !.absolute_values = Locals.absolute_values],
         failed |-> P.failed \/ E.failed]

\* the run is one with option -d that has read its log
DifficultRead ==
    Locals.difficult /\ ~Locals.print_help /\ log # <<>> /\ pc \in {"END OF INPUT", "return", "exit"}

\* C29: in a run with option -d the instance list of the parameter file has
\* no effect: on the same log, every run whose parameter file differs only in
\* its instance selection fails or not alike, registers the same instances,
\* builds the same Results Table and accepts and rejects the same numbers of
\* instances, while the algorithm list is applied: only its algorithms are
\* registered.
C29_InstanceListIgnored ==
    DifficultRead =>
        \A f2 \in ParameterFiles :
            SameButInstances(argv.file, f2) =>
                LET R == DifficultRun(f2, log)
                IN  /\ R.failed <=> pc = "exit"
                    /\ ~R.failed =>
                         /\ TB = R.TB
                         /\ AlgorithmsListed =>
                                DOMAIN TB.Algo_names = Range(ListNames(algorithm_names_file))
                         /\ pc = "return" =>
                              \A order \in Orders(R.TB.Inst_names) :
                                  LET X == extract(R.TB, Locals.level, order)
                                  IN  /\ X.accepted = out.accepted
                                      /\ X.rejected = out.rejected

\* a run with -d and an instance list that names one of the two instances of
\* the log: both instances are classified
C29_Witness ==
    /\ pc = "return"
    /\ Locals.difficult
    /\ Word(argv.file.words, 2) = "some_instances"
    /\ instance_names_file = <<Inst2>>
    /\ DOMAIN TB.Inst_names = {Inst1, Inst2}
    /\ out.accepted + out.rejected = 2

\* a run with -d, an instance list and an algorithm list that leaves out
\* algorithms of the log
C29_WitnessAlgorithms ==
    /\ pc = "return"
    /\ Locals.difficult
    /\ Word(argv.file.words, 2) = "some_instances"
    /\ AlgorithmsListed
    /\ TB.skipped_alg > 0
    /\ DOMAIN TB.Algo_names = {Algo1}

=============================================================================
